---------------------------- MODULE Spec2Model ----------------------------
(***************************************************************************)
(* AccessGraph: the in-memory graph engine (internal/graph), the attack    *)
(* path search, and the SQLite snapshot store (internal/store).            *)
(*                                                                         *)
(* Node ids are strings in the program.  They are modelled by the naturals *)
(* 1, 2, 3, whose order stands for the byte order that sort.Strings and    *)
(* SQLite's ORDER BY use; 0 (NoID) stands for the empty string.            *)
(***************************************************************************)
EXTENDS Integers, Sequences, FiniteSets, TLC

VARIABLES
    graph,      \* the *Graph the process builds and queries
    last,       \* the last call made and what it returned
    panicked,   \* the goroutine has panicked (the process is gone)
    db,         \* the committed rows of the SQLite database
    save,       \* the SaveSnapshot call in progress and its transaction
    load,       \* the LoadSnapshot call in progress and its result
    saved,      \* snapshot id -> the graph a successful SaveSnapshot was given
    clock,      \* the wall clock, in ticks
    commits,    \* the snapshot ids in the order their transactions committed
    cache,      \* the resolver's LRU of loaded graphs
    resolver,   \* the loadGraph calls in progress and what the store was asked
    transport   \* http.DefaultTransport: the offlineTransport wrappers, outermost first

vars == <<graph, last, panicked, db, save, load, saved, clock, commits, cache, resolver, transport>>
graphVars == <<graph, last, panicked>>
storeVars == <<db, save, load, saved>>
envVars == <<clock, commits, cache, resolver, transport>>

---------------------------------------------------------------------------
(* Bounds of the model.                                                    *)

MaxEdges == 2

NodeIDs == {1, 2, 3}
BuildIDs == {1, 2}
NoID == 0

DefaultMaxHops == 8
AttackPathDefaultHops == 8

---------------------------------------------------------------------------
(* ingest.Node and ingest.Edge.  A Go map is nil or a (possibly empty)     *)
(* key/value mapping; a Go slice is nil or a (possibly empty) sequence.    *)

EmptyKV == [k \in {} |-> ""]
NilProps == [isNil |-> TRUE, kv |-> EmptyKV]
MkProps(f) == [isNil |-> FALSE, kv |-> f]

NilLabels == [isNil |-> TRUE, s |-> <<>>]
MkLabels(s) == [isNil |-> FALSE, s |-> s]

Node(id, kind, labels, props) ==
    [ID |-> id, Kind |-> kind, Labels |-> labels, Props |-> props]

Edge(src, dst, kind, props) ==
    [Src |-> src, Dst |-> dst, Kind |-> kind, Props |-> props]

ZeroNode == Node(NoID, "", NilLabels, NilProps)
ZeroEdge == Edge(NoID, NoID, "", NilProps)

NoErr == ""

---------------------------------------------------------------------------
(* gonum simple.DirectedGraph, as far as Graph uses it: a set of int64     *)
(* node ids and a set of directed (from, to) pairs.  SetEdge panics on a   *)
(* self edge.                                                              *)

NewDirectedGraph == [nodes |-> {}, edges |-> {}]

SetEdgePanics(fid, tid) == fid = tid

SetEdge(dg, fid, tid) ==
    [nodes |-> dg.nodes \cup {fid, tid}, edges |-> dg.edges \cup {<<fid, tid>>}]

From(dg, nid) == {e[2] : e \in {x \in dg.edges : x[1] = nid}}

---------------------------------------------------------------------------
(* internal/graph: Graph                                                   *)

New ==
    [g         |-> NewDirectedGraph,
     nodes     |-> EmptyKV,
     edges     |-> <<>>,
     nodesByID |-> EmptyKV,
     edgeIndex |-> EmptyKV]

\* Mutant: last write wins (the stored node is replaced on a second AddNode).
AddNode_Overwrite(G, node) ==
    IF node.ID \in DOMAIN G.nodes
    THEN [G EXCEPT !.nodes[node.ID].data = node]
    ELSE LET id == Cardinality(DOMAIN G.nodes) + 1
             gn == [id |-> id, data |-> node]
         IN  [G EXCEPT !.nodes     = (node.ID :> gn) @@ G.nodes,
                       !.nodesByID = (id :> node.ID) @@ G.nodesByID,
                       !.g         = [@ EXCEPT !.nodes = @ \cup {id}]]

AddNode(G, node) ==
    IF node.ID \in DOMAIN G.nodes
    THEN G
    ELSE LET id == Cardinality(DOMAIN G.nodes) + 1
             gn == [id |-> id, data |-> node]
         IN  [G EXCEPT !.nodes     = (node.ID :> gn) @@ G.nodes,
                       !.nodesByID = (id :> node.ID) @@ G.nodesByID,
                       !.g         = [@ EXCEPT !.nodes = @ \cup {id}]]

IndexAppend(index, edge) ==
    LET dstMap == IF edge.Src \in DOMAIN index THEN index[edge.Src] ELSE EmptyKV
        old    == IF edge.Dst \in DOMAIN dstMap THEN dstMap[edge.Dst] ELSE <<>>
    IN  (edge.Src :> ((edge.Dst :> Append(old, edge)) @@ dstMap)) @@ index

\* Mutant: the destination is not checked before the edge is logged.
AddEdge_NoDstCheck(G, edge) ==
    IF edge.Src \notin DOMAIN G.nodes
    THEN [G |-> G, err |-> "source node not found"]
    ELSE IF edge.Dst \in DOMAIN G.nodes /\ SetEdgePanics(G.nodes[edge.Src].id, G.nodes[edge.Dst].id)
    THEN [G |-> G, err |-> "panic"]
    ELSE [G   |-> [G EXCEPT !.edges     = Append(@, edge),
                            !.edgeIndex = IndexAppend(@, edge)],
          err |-> NoErr]

\* AddEdge returns the graph after the call and its outcome: the error
\* text, NoErr, or "panic" when gonum's SetEdge panics.
AddEdge(G, edge) ==
    IF edge.Src \notin DOMAIN G.nodes
    THEN [G |-> G, err |-> "source node not found"]
    ELSE IF edge.Dst \notin DOMAIN G.nodes
    THEN [G |-> G, err |-> "destination node not found"]
    ELSE LET src == G.nodes[edge.Src]
             dst == G.nodes[edge.Dst]
         IN  IF SetEdgePanics(src.id, dst.id)
             THEN [G |-> G, err |-> "panic"]
             ELSE [G   |-> [G EXCEPT !.g         = SetEdge(@, src.id, dst.id),
                                     !.edges     = Append(@, edge),
                                     !.edgeIndex = IndexAppend(@, edge)],
                   err |-> NoErr]

GetNode(G, id) ==
    IF id \in DOMAIN G.nodes
    THEN [node |-> G.nodes[id].data, ok |-> TRUE]
    ELSE [node |-> ZeroNode, ok |-> FALSE]

GetEdges(G) == G.edges

lookupEdge(G, srcID, dstID) ==
    IF /\ srcID \in DOMAIN G.edgeIndex
       /\ dstID \in DOMAIN G.edgeIndex[srcID]
       /\ Len(G.edgeIndex[srcID][dstID]) > 0
    THEN [edge |-> G.edgeIndex[srcID][dstID][1], found |-> TRUE]
    ELSE [edge |-> ZeroEdge, found |-> FALSE]

\* Mutant: the node's props are replaced by a new map holding the mark only.
MarkSensitive_FreshProps(G, nodeID) ==
    IF nodeID \notin DOMAIN G.nodes
    THEN [G |-> G, err |-> "node not found"]
    ELSE [G   |-> [G EXCEPT !.nodes[nodeID].data.Props = MkProps("sensitive" :> "true")],
          err |-> NoErr]

MarkSensitive(G, nodeID) ==
    IF nodeID \notin DOMAIN G.nodes
    THEN [G |-> G, err |-> "node not found"]
    ELSE LET old == G.nodes[nodeID].data.Props
             kv  == ("sensitive" :> "true") @@ old.kv
         IN  [G   |-> [G EXCEPT !.nodes[nodeID].data.Props = MkProps(kv)],
              err |-> NoErr]

---------------------------------------------------------------------------
(* gonum path.DijkstraFrom over the unweighted graph (UniformCost: every   *)
(* edge weighs 1) and Shortest.To.  Which of several shortest paths To     *)
(* returns depends on gonum's map iteration order: every one is possible.  *)

RECURSIVE Relax(_, _, _, _)
Relax(dg, dist, frontier, d) ==
    LET next == (UNION {From(dg, n) : n \in frontier}) \ DOMAIN dist
    IN  IF next = {}
        THEN dist
        ELSE Relax(dg, [n \in next |-> d + 1] @@ dist, next, d + 1)

\* The distance of every node reachable from u; unreachable nodes (gonum:
\* distance +Inf) are outside the domain.
DijkstraFrom(dg, u) == Relax(dg, (u :> 0), {u}, 0)

\* Mutant: any simple path to v is returned (a depth-first search).
ShortestTo_AnySimplePath(dg, dist, u, v) ==
    IF v \notin DOMAIN dist
    THEN {<<>>}
    ELSE {p \in UNION {[1..k -> DOMAIN dist] : k \in 1..Cardinality(DOMAIN dist)} :
            /\ p[1] = u
            /\ p[Len(p)] = v
            /\ \A i, j \in 1..Len(p) : p[i] = p[j] => i = j
            /\ \A i \in 1..(Len(p) - 1) : <<p[i], p[i + 1]>> \in dg.edges}

ShortestTo(dg, dist, u, v) ==
    IF v \notin DOMAIN dist
    THEN {<<>>}
    ELSE {p \in [1..(dist[v] + 1) -> DOMAIN dist] :
            /\ p[1] = u
            /\ p[dist[v] + 1] = v
            /\ \A i \in 1..dist[v] : <<p[i], p[i + 1]>> \in dg.edges}

---------------------------------------------------------------------------
(* Graph.ShortestPath                                                      *)

PathResult(nodes, edges, err) == [nodes |-> nodes, edges |-> edges, err |-> err]

RECURSIVE PathEdges(_, _, _)
PathEdges(G, nodePath, i) ==
    IF i >= Len(nodePath)
    THEN <<>>
    ELSE LET nodeID == G.nodesByID[nodePath[i]]
             nextID == G.nodesByID[nodePath[i + 1]]
             r      == lookupEdge(G, nodeID, nextID)
         IN  (IF r.found THEN <<r.edge>> ELSE <<>>) \o PathEdges(G, nodePath, i + 1)

PathNodes(G, nodePath) ==
    [i \in 1..Len(nodePath) |-> G.nodes[G.nodesByID[nodePath[i]]].data]

\* Mutant: the hop check is off by one (len(nodePath) > maxHops+2).
ShortestPath_HopOffByOne(G, fromID, toID, maxHopsArg) ==
    IF fromID \notin DOMAIN G.nodes
    THEN {PathResult(<<>>, <<>>, "source node not found")}
    ELSE IF toID \notin DOMAIN G.nodes
    THEN {PathResult(<<>>, <<>>, "destination node not found")}
    ELSE LET srcNode  == G.nodes[fromID]
             dstNode  == G.nodes[toID]
             maxHops  == IF maxHopsArg <= 0 THEN DefaultMaxHops ELSE maxHopsArg
             shortest == DijkstraFrom(G.g, srcNode.id)
         IN  { IF Len(nodePath) = 0
               THEN PathResult(<<>>, <<>>, "no path found")
               ELSE IF Len(nodePath) > maxHops + 2
               THEN PathResult(<<>>, <<>>, "path exceeds max hops")
               ELSE PathResult(PathNodes(G, nodePath), PathEdges(G, nodePath, 1), NoErr)
               : nodePath \in ShortestTo(G.g, shortest, srcNode.id, dstNode.id) }

\* The set of results the call can return.
ShortestPath(G, fromID, toID, maxHopsArg) ==
    IF fromID \notin DOMAIN G.nodes
    THEN {PathResult(<<>>, <<>>, "source node not found")}
    ELSE IF toID \notin DOMAIN G.nodes
    THEN {PathResult(<<>>, <<>>, "destination node not found")}
    ELSE LET srcNode  == G.nodes[fromID]
             dstNode  == G.nodes[toID]
             maxHops  == IF maxHopsArg <= 0 THEN DefaultMaxHops ELSE maxHopsArg
             shortest == DijkstraFrom(G.g, srcNode.id)
         IN  { IF Len(nodePath) = 0
               THEN PathResult(<<>>, <<>>, "no path found")
               ELSE IF Len(nodePath) > maxHops + 1
               THEN PathResult(<<>>, <<>>, "path exceeds max hops")
               ELSE PathResult(PathNodes(G, nodePath), PathEdges(G, nodePath, 1), NoErr)
               : nodePath \in ShortestTo(G.g, shortest, srcNode.id, dstNode.id) }

---------------------------------------------------------------------------
(* Graph.FindAttackPath                                                    *)

\* (*AttackPathResult, error): isNil says the result pointer is nil.
AttackResult(nodes, edges, found) ==
    [isNil |-> FALSE, Nodes |-> nodes, Edges |-> edges, Found |-> found, err |-> NoErr]
AttackError(err) ==
    [isNil |-> TRUE, Nodes |-> <<>>, Edges |-> <<>>, Found |-> FALSE, err |-> err]

RECURSIVE SortStrings(_)
SortStrings(S) ==
    IF S = {}
    THEN <<>>
    ELSE LET m == CHOOSE x \in S : \A y \in S : x <= y
         IN  <<m>> \o SortStrings(S \ {m})

HasSensitive(props) ==
    /\ "sensitive" \in DOMAIN props.kv
    /\ props.kv["sensitive"] = "true"

findSensitiveResources(G) ==
    SortStrings({id \in DOMAIN G.nodes : HasSensitive(G.nodes[id].data.Props)})

RECURSIVE NearestLoop(_, _, _, _, _, _, _)
NearestLoop(G, fromID, maxHops, targets, i, shortestPath, shortestLength) ==
    IF i > Len(targets)
    THEN {IF shortestPath.isNil THEN AttackResult(<<>>, <<>>, FALSE) ELSE shortestPath}
    ELSE UNION {
           IF r.err # NoErr
           THEN NearestLoop(G, fromID, maxHops, targets, i + 1, shortestPath, shortestLength)
           ELSE IF Len(r.nodes) < shortestLength
           THEN NearestLoop(G, fromID, maxHops, targets, i + 1,
                            AttackResult(r.nodes, r.edges, TRUE), Len(r.nodes))
           ELSE NearestLoop(G, fromID, maxHops, targets, i + 1, shortestPath, shortestLength)
           : r \in ShortestPath(G, fromID, targets[i], maxHops) }

findNearestSensitiveResource(G, fromID, maxHops) ==
    LET sensitiveResources == findSensitiveResources(G)
    IN  IF Len(sensitiveResources) = 0
        THEN {AttackResult(<<>>, <<>>, FALSE)}
        ELSE NearestLoop(G, fromID, maxHops, SortStrings({sensitiveResources[k] :
                             k \in 1..Len(sensitiveResources)}), 1,
                         AttackError(NoErr), maxHops + 1)

Contains(tags, t) == \E k \in 1..Len(tags) : tags[k] = t

\* Mutant: ShortestPath's error is returned to the caller instead of being
\* wrapped as found=false.
FindAttackPath_PropagateErr(G, fromID, toID, tags, maxHopsArg) ==
    LET maxHops == IF maxHopsArg <= 0 THEN AttackPathDefaultHops ELSE maxHopsArg
    IN  IF fromID \notin DOMAIN G.nodes
        THEN {AttackError("source node not found")}
        ELSE IF toID # NoID
        THEN IF toID \notin DOMAIN G.nodes
             THEN {AttackError("destination node not found")}
             ELSE { IF r.err # NoErr
                    THEN AttackError(r.err)
                    ELSE AttackResult(r.nodes, r.edges, TRUE)
                    : r \in ShortestPath(G, fromID, toID, maxHops) }
        ELSE IF Contains(tags, "sensitive")
        THEN findNearestSensitiveResource(G, fromID, maxHops)
        ELSE {AttackError("target ID or 'sensitive' tag required")}

FindAttackPath(G, fromID, toID, tags, maxHopsArg) ==
    LET maxHops == IF maxHopsArg <= 0 THEN AttackPathDefaultHops ELSE maxHopsArg
    IN  IF fromID \notin DOMAIN G.nodes
        THEN {AttackError("source node not found")}
        ELSE IF toID # NoID
        THEN IF toID \notin DOMAIN G.nodes
             THEN {AttackError("destination node not found")}
             ELSE { IF r.err # NoErr
                    THEN AttackResult(<<>>, <<>>, FALSE)
                    ELSE AttackResult(r.nodes, r.edges, TRUE)
                    : r \in ShortestPath(G, fromID, toID, maxHops) }
        ELSE IF Contains(tags, "sensitive")
        THEN findNearestSensitiveResource(G, fromID, maxHops)
        ELSE {AttackError("target ID or 'sensitive' tag required")}

---------------------------------------------------------------------------
(* The loops that feed a graph: the ingest driver's and LoadSnapshot's.    *)
(* An edge AddEdge rejects is skipped.                                     *)

RECURSIVE AddNodes(_, _)
AddNodes(G, ns) ==
    IF ns = <<>> THEN G ELSE AddNodes(AddNode(G, Head(ns)), Tail(ns))

\* The graph after the loop, or panic when an AddEdge panicked.
RECURSIVE AddEdges(_, _)
AddEdges(G, es) ==
    IF es = <<>>
    THEN [G |-> G, panic |-> FALSE]
    ELSE LET r == AddEdge(G, Head(es))
         IN  IF r.err = "panic"
             THEN [G |-> r.G, panic |-> TRUE]
             ELSE AddEdges(r.G, Tail(es))

---------------------------------------------------------------------------
(* internal/store: the SQLite tables of models.sql and database/sql        *)
(* transactions.  A table is the sequence of its rows in insertion order.  *)
(* Other connections read committed rows only; the rows a transaction has  *)
(* written are pending until Commit and are dropped by Rollback.           *)
(*                                                                         *)
(* Strings are valid UTF-8 (they come out of the JSON and YAML decoders),  *)
(* so encoding/json writes and reads them back unchanged; the JSON text of *)
(* a labels or props column is modelled by its kind (null, array, object)  *)
(* and its content.                                                        *)

EmptyDB == [snapshots |-> EmptyKV, nodes |-> <<>>, edges |-> <<>>]
EmptyTx == [snapshots |-> EmptyKV, nodes |-> <<>>, edges |-> <<>>]

MarshalLabels(l) ==
    IF l.isNil THEN [json |-> "null", arr |-> <<>>] ELSE [json |-> "array", arr |-> l.s]

\* json.Unmarshal into a nil slice: null leaves it nil.
UnmarshalLabels(j) ==
    IF j.json = "null" THEN NilLabels ELSE MkLabels(j.arr)

MarshalProps(p) ==
    IF p.isNil THEN [json |-> "null", obj |-> EmptyKV] ELSE [json |-> "object", obj |-> p.kv]

\* json.Unmarshal into a nil map: null leaves it nil.
UnmarshalProps(j) ==
    IF j.json = "null" THEN NilProps ELSE MkProps(j.obj)

NodeRow(id, node) ==
    [snapshot_id |-> id, id |-> node.ID, kind |-> node.Kind,
     labels |-> MarshalLabels(node.Labels), props |-> MarshalProps(node.Props)]

EdgeRow(id, edge) ==
    [snapshot_id |-> id, src |-> edge.Src, dst |-> edge.Dst, kind |-> edge.Kind,
     props |-> MarshalProps(edge.Props)]

\* INSERT INTO snapshots: id is the PRIMARY KEY.
\* time.Now().UTC().Format(time.RFC3339): the clock cut to whole seconds.
TicksPerSecond == 2
FormatRFC3339(t) == t \div TicksPerSecond

TxInsertSnapshot(d, tx, id, createdAt, label) ==
    IF id \in DOMAIN d.snapshots \cup DOMAIN tx.snapshots
    THEN [db |-> d, tx |-> tx, err |-> "inserting snapshot"]
    ELSE [db |-> d,
          tx |-> [tx EXCEPT !.snapshots =
                     (id :> [created_at |-> createdAt, label |-> label]) @@ @],
          err |-> NoErr]

\* Mutant: the node row is written outside the transaction (autocommit).
TxInsertNode_AutoCommit(d, tx, id, node) ==
    [db |-> [d EXCEPT !.nodes = Append(@, NodeRow(id, node))], tx |-> tx]

TxInsertNode(d, tx, id, node) ==
    [db |-> d, tx |-> [tx EXCEPT !.nodes = Append(@, NodeRow(id, node))]]

TxInsertEdge(d, tx, id, edge) ==
    [db |-> d, tx |-> [tx EXCEPT !.edges = Append(@, EdgeRow(id, edge))]]

TxCommit(d, tx) ==
    [snapshots |-> tx.snapshots @@ d.snapshots,
     nodes     |-> d.nodes \o tx.nodes,
     edges     |-> d.edges \o tx.edges]

\* Mutant: the deferred Rollback keeps what the transaction wrote.
TxRollback_KeepsRows(d, tx) == TxCommit(d, tx)

TxRollback(d, tx) == d

Perms(S) ==
    {q \in [1..Cardinality(S) -> S] : \A i, j \in 1..Cardinality(S) : q[i] = q[j] => i = j}

\* GetNodes ranges over the node map: the order is any order.
GetNodes(G) == {[i \in 1..Len(q) |-> G.nodes[q[i]].data] : q \in Perms(DOMAIN G.nodes)}

RECURSIVE InsertNodes(_, _, _, _)
InsertNodes(d, tx, id, nodes) ==
    IF nodes = <<>>
    THEN [db |-> d, tx |-> tx]
    ELSE LET r == TxInsertNode(d, tx, id, Head(nodes))
         IN  InsertNodes(r.db, r.tx, id, Tail(nodes))

RECURSIVE InsertEdges(_, _, _, _)
InsertEdges(d, tx, id, edges) ==
    IF edges = <<>>
    THEN [db |-> d, tx |-> tx]
    ELSE LET r == TxInsertEdge(d, tx, id, Head(edges))
         IN  InsertEdges(r.db, r.tx, id, Tail(edges))

\* SaveSnapshot run to its end with no cancellation: the database after
\* the call and the error returned, for each order GetNodes can give.
SaveSnapshot(d, now, id, label, G) ==
    LET r1 == TxInsertSnapshot(d, EmptyTx, id, FormatRFC3339(now), label)
    IN  IF r1.err # NoErr
        THEN {[db |-> TxRollback(r1.db, r1.tx), err |-> r1.err]}
        ELSE { LET r2 == InsertNodes(r1.db, r1.tx, id, nodes)
                   r3 == InsertEdges(r2.db, r2.tx, id, GetEdges(G))
               IN  [db |-> TxCommit(r3.db, r3.tx), err |-> NoErr]
               : nodes \in GetNodes(G) }

\* The byte order of the edge kinds, as ORDER BY kind compares them.
EdgeKindOrder == <<"ALLOWS_ACTION", "APPLIES_TO", "ASSUMES_ROLE", "ATTACHED_POLICY">>
KindRank(k) == CHOOSE i \in 1..Len(EdgeKindOrder) : EdgeKindOrder[i] = k

NodeKeyLeq(a, b) == a.id <= b.id

EdgeKeyLeq(a, b) ==
    \/ a.src < b.src
    \/ a.src = b.src /\ a.dst < b.dst
    \/ a.src = b.src /\ a.dst = b.dst /\ KindRank(a.kind) <= KindRank(b.kind)

\* SELECT ... WHERE snapshot_id = id ORDER BY key: the rows of the snapshot
\* in any order the key allows (rows with equal keys come in any order).
Select(table, id) == {i \in 1..Len(table) : table[i].snapshot_id = id}

\* Mutant: no ORDER BY clause (the rows come in insertion order).
QueryEdges_Unordered(d, id) ==
    LET I == Select(d.edges, id)
    IN  {[k \in 1..Cardinality(I) |-> d.edges[q[k]]] :
            q \in {x \in Perms(I) : \A i, j \in 1..Cardinality(I) : i < j => x[i] < x[j]}}

QueryEdges(d, id) ==
    LET I == Select(d.edges, id)
    IN  {[k \in 1..Cardinality(I) |-> d.edges[q[k]]] :
            q \in {x \in Perms(I) : \A i, j \in 1..Cardinality(I) :
                        i < j => EdgeKeyLeq(d.edges[x[i]], d.edges[x[j]])}}

QueryNodes(d, id) ==
    LET I == Select(d.nodes, id)
    IN  {[k \in 1..Cardinality(I) |-> d.nodes[q[k]]] :
            q \in {x \in Perms(I) : \A i, j \in 1..Cardinality(I) :
                        i < j => NodeKeyLeq(d.nodes[x[i]], d.nodes[x[j]])}}

ScanNode(row) ==
    Node(row.id, row.kind, UnmarshalLabels(row.labels), UnmarshalProps(row.props))

ScanEdge(row) ==
    Edge(row.src, row.dst, row.kind, UnmarshalProps(row.props))

\* The node loop of LoadSnapshot.
LoadNodes(G, rows) == AddNodes(G, [k \in 1..Len(rows) |-> ScanNode(rows[k])])

\* The edge loop of LoadSnapshot: an edge AddEdge rejects is skipped.
LoadEdges(G, rows) == AddEdges(G, [k \in 1..Len(rows) |-> ScanEdge(rows[k])])

\* The graphs LoadSnapshot can return (panic: an AddEdge panicked).
LoadSnapshot(d, id) ==
    {LoadEdges(LoadNodes(New, nr), er) : nr \in QueryNodes(d, id), er \in QueryEdges(d, id)}

\* Mutant: COUNT(DISTINCT src, dst, kind).
CountEdges_Distinct(d, id) ==
    Cardinality({<<d.edges[i].src, d.edges[i].dst, d.edges[i].kind>> : i \in Select(d.edges, id)})

CountNodes(d, id) == Cardinality(Select(d.nodes, id))

CountEdges(d, id) == Cardinality(Select(d.edges, id))

IdleSave ==
    [pc |-> "idle", id |-> "", label |-> "", g |-> New, todo |-> {}, ei |-> 1,
     tx |-> EmptyTx, before |-> EmptyDB, wrote |-> 0, calls |-> 0, err |-> NoErr]

\* No loadGraph call is running, LoadSnapshot was never called, no graph was
\* allocated and no snapshot id was used.
IdleResolver == [calls |-> <<>>, loads |-> <<>>, heap |-> 0, uses |-> <<>>]

IdleLoad ==
    [pc |-> "idle", id |-> "", g |-> New, rows |-> 0, afterSave |-> FALSE, err |-> NoErr]

---------------------------------------------------------------------------
(* Inputs of the model.                                                    *)

Kinds == {"PRINCIPAL", "RESOURCE"}
EdgeKinds == {"ASSUMES_ROLE", "ATTACHED_POLICY"}

NodeData ==
    { <<"PRINCIPAL", MkLabels(<<"r", "aws-role">>), NilProps>>,
      <<"RESOURCE", MkLabels(<<>>), MkProps("name" :> "bkt")>> }

NodeInputs == {Node(id, d[1], d[2], d[3]) : id \in BuildIDs, d \in NodeData}

EdgeInputs ==
    {Edge(s, d, k, IF k = "ASSUMES_ROLE" THEN MkProps("action" :> "sts:AssumeRole")
                                         ELSE NilProps) :
        s \in NodeIDs, d \in NodeIDs, k \in EdgeKinds}

Call(op, arg, err) == [op |-> op, arg |-> arg, err |-> err]

---------------------------------------------------------------------------
(* The graph under construction.  Nodes are added under the ids 1 and 2;   *)
(* edges may also name the id 3, which is never a node of this graph.      *)

EnvIdle ==
    /\ clock = 0
    /\ commits = <<>>
    /\ cache = <<>>
    /\ resolver = IdleResolver
    /\ transport = <<>>

StoreIdle ==
    /\ db = EmptyDB
    /\ save = IdleSave
    /\ load = IdleLoad
    /\ saved = EmptyKV

Init ==
    /\ graph = New
    /\ last = Call("New", <<>>, NoErr)
    /\ panicked = FALSE
    /\ StoreIdle
    /\ EnvIdle

DoAddNode ==
    /\ ~panicked
    /\ \E node \in NodeInputs :
        /\ graph' = AddNode(graph, node)
        /\ last' = Call("AddNode", <<node>>, NoErr)
    /\ UNCHANGED <<panicked, storeVars, envVars>>

DoAddEdge ==
    /\ ~panicked
    /\ Len(graph.edges) < MaxEdges
    /\ \E edge \in EdgeInputs :
        LET r == AddEdge(graph, edge)
        IN  /\ graph' = r.G
            /\ last' = Call("AddEdge", <<edge>>, r.err)
            /\ panicked' = (r.err = "panic")
    /\ UNCHANGED <<storeVars, envVars>>

DoMarkSensitive ==
    /\ ~panicked
    /\ \E id \in BuildIDs :
        LET r == MarkSensitive(graph, id)
        IN  /\ graph' = r.G
            /\ last' = Call("MarkSensitive", <<id>>, r.err)
    /\ UNCHANGED <<panicked, storeVars, envVars>>

Next == DoAddNode \/ DoAddEdge \/ DoMarkSensitive

Spec == Init /\ [][Next]_vars

---------------------------------------------------------------------------
(* Path queries.  ShortestPath and FindAttackPath read the graph and do    *)
(* not change it.  The graph is drawn from the graphs the program can      *)
(* build: some of the nodes 1, 2, 3 are added, then up to MaxPathEdges     *)
(* edges (edges with a missing endpoint are skipped, as the ingest driver  *)
(* and LoadSnapshot do), then some nodes are marked sensitive.  One query  *)
(* is then made on it.                                                     *)

MaxPathEdges == 3

HopInputs == {0, 1, 2}
TagInputs == {<<>>, <<"sensitive">>}

PathNode(id) == Node(id, "PRINCIPAL", MkLabels(<<"aws-role">>), MkProps(EmptyKV))

PathEdgeInputs ==
    {Edge(p[1], p[2], "ATTACHED_POLICY", NilProps) :
        p \in {q \in NodeIDs \X NodeIDs : q[1] # q[2]}}

RECURSIVE MarkAll(_, _)
MarkAll(G, ids) ==
    IF ids = <<>> THEN G ELSE MarkAll(MarkSensitive(G, Head(ids)).G, Tail(ids))

SeqsUpTo(S, n) == UNION {[1..k -> S] : k \in 0..n}

PathGraphs ==
    { MarkAll(AddEdges(AddNodes(New, [i \in 1..Cardinality(S) |->
                                        PathNode(SortStrings(S)[i])]), es).G,
              SortStrings(M)) :
        S \in SUBSET NodeIDs, M \in SUBSET NodeIDs, es \in SeqsUpTo(PathEdgeInputs, MaxPathEdges) }

InitPath ==
    /\ graph \in PathGraphs
    /\ last = Call("New", <<>>, NoErr)
    /\ panicked = FALSE
    /\ StoreIdle
    /\ EnvIdle

DoShortestPath ==
    /\ last.op = "New"
    /\ \E fromID \in NodeIDs, toID \in NodeIDs, maxHops \in HopInputs :
        \E r \in ShortestPath(graph, fromID, toID, maxHops) :
            last' = [op |-> "ShortestPath", arg |-> <<fromID, toID, maxHops>>,
                     err |-> r.err, nodes |-> r.nodes, edges |-> r.edges]
    /\ UNCHANGED <<graph, panicked, storeVars, envVars>>

DoFindAttackPath ==
    /\ last.op = "New"
    /\ \E fromID \in NodeIDs, toID \in NodeIDs \cup {NoID}, tags \in TagInputs,
          maxHops \in HopInputs :
        \E r \in FindAttackPath(graph, fromID, toID, tags, maxHops) :
            last' = [op |-> "FindAttackPath", arg |-> <<fromID, toID, tags, maxHops>>,
                     err |-> r.err, result |-> r]
    /\ UNCHANGED <<graph, panicked, storeVars, envVars>>

NextPath == DoShortestPath \/ DoFindAttackPath

SpecPath == InitPath /\ [][NextPath]_vars

---------------------------------------------------------------------------
(* One ingest: the parsers' batch (N, E) is fed to AddNode and AddEdge,    *)
(* the graph is saved under one snapshot id, then loaded and counted.      *)

MaxIngestNodes == 3
MaxIngestEdges == 2

RoundNodeInputs ==
    { Node(1, "PRINCIPAL", MkLabels(<<"r", "aws-role">>), NilProps),
      Node(1, "RESOURCE", MkLabels(<<>>), MkProps("name" :> "bkt")),
      Node(1, "ROLE", NilLabels, MkProps(EmptyKV)),
      Node(2, "POLICY", MkLabels(<<"p">>), MkProps("arn" :> "a" @@ "name" :> "n")) }

RoundEdgeInputs ==
    { Edge(1, 2, "ATTACHED_POLICY", NilProps),
      Edge(1, 2, "ASSUMES_ROLE", MkProps("action" :> "sts:AssumeRole")),
      Edge(1, 2, "ASSUMES_ROLE", MkProps(EmptyKV)),
      Edge(2, 1, "ASSUMES_ROLE", MkProps("action" :> "sts:AssumeRole")),
      Edge(2, 1, "ALLOWS_ACTION", NilProps),
      Edge(1, 3, "APPLIES_TO", NilProps),
      Edge(1, 1, "ASSUMES_ROLE", MkProps("action" :> "sts:AssumeRole")) }

Batch(N, E) == [Nodes |-> N, Edges |-> E]

RoundID == "s1"

InitRound ==
    /\ \E N \in SeqsUpTo(RoundNodeInputs, MaxIngestNodes),
          E \in SeqsUpTo(RoundEdgeInputs, MaxIngestEdges) :
         last = [op |-> "parse", arg |-> Batch(N, E), err |-> NoErr]
    /\ graph = New
    /\ panicked = FALSE
    /\ StoreIdle
    /\ EnvIdle

\* The ingest driver's build loops.
RoundBuild ==
    /\ ~panicked
    /\ last.op = "parse"
    /\ LET r == AddEdges(AddNodes(New, last.arg.Nodes), last.arg.Edges)
       IN  /\ graph' = r.G
           /\ panicked' = r.panic
    /\ last' = [last EXCEPT !.op = "build"]
    /\ UNCHANGED <<storeVars, envVars>>

RoundSave ==
    /\ ~panicked
    /\ last.op = "build"
    /\ \E r \in SaveSnapshot(db, clock, RoundID, RoundID, graph) :
        /\ db' = r.db
        /\ save' = [IdleSave EXCEPT !.pc = "done", !.id = RoundID, !.g = graph,
                                    !.err = r.err]
        /\ saved' = IF r.err = NoErr THEN (RoundID :> graph) @@ saved ELSE saved
        /\ commits' = IF r.err = NoErr THEN Append(commits, RoundID) ELSE commits
        /\ last' = [last EXCEPT !.op = "save", !.err = r.err]
    /\ UNCHANGED <<graph, panicked, load, clock, cache, resolver, transport>>

RoundLoad ==
    /\ ~panicked
    /\ last.op = "save"
    /\ \E r \in LoadSnapshot(db, RoundID) :
        /\ load' = [IdleLoad EXCEPT !.pc = "done", !.id = RoundID, !.g = r.G,
                                    !.afterSave = TRUE]
        /\ panicked' = r.panic
    /\ last' = [last EXCEPT !.op = "load"]
    /\ UNCHANGED <<graph, db, save, saved, envVars>>

RoundCount ==
    /\ ~panicked
    /\ last.op \in {"save", "load"}
    /\ last' = [op |-> "count", arg |-> last.arg, err |-> NoErr,
                nodes |-> CountNodes(db, RoundID), edges |-> CountEdges(db, RoundID)]
    /\ UNCHANGED <<graph, panicked, storeVars, envVars>>

NextRound == RoundBuild \/ RoundSave \/ RoundLoad \/ RoundCount

SpecRound == InitRound /\ [][NextRound]_vars

---------------------------------------------------------------------------
(* The store under concurrency and failure.  One goroutine calls           *)
(* SaveSnapshot (statement by statement, each of which may fail or find    *)
(* the context cancelled); another calls LoadSnapshot, whose node query    *)
(* and edge query are two reads of the committed rows.                     *)

MaxSaves == 2
MaxStoreEdges == 1

StoreIDs == {"s1", "s2"}

StoreEdgeInputs ==
    { Edge(1, 2, "ATTACHED_POLICY", NilProps),
      Edge(2, 1, "ASSUMES_ROLE", MkProps("action" :> "sts:AssumeRole")) }

StoreGraphs ==
    { AddEdges(AddNodes(New, ns), es).G :
        ns \in {<<>>, <<PathNode(1)>>, <<PathNode(1), PathNode(2)>>},
        es \in SeqsUpTo(StoreEdgeInputs, MaxStoreEdges) }

InitStore ==
    /\ graph = New
    /\ last = Call("New", <<>>, NoErr)
    /\ panicked = FALSE
    /\ StoreIdle
    /\ EnvIdle

SaveReturn(err) ==
    [save EXCEPT !.pc = "done", !.tx = EmptyTx, !.err = err]

\* BeginTx succeeds.
SaveBegin ==
    /\ ~panicked
    /\ save.pc \in {"idle", "done"}
    /\ save.calls < MaxSaves
    /\ \E id \in StoreIDs, g \in StoreGraphs :
         save' = [pc |-> "snapshot", id |-> id, label |-> id, g |-> g,
                  todo |-> DOMAIN g.nodes, ei |-> 1, tx |-> EmptyTx, before |-> db,
                  wrote |-> 0, calls |-> save.calls + 1, err |-> NoErr]
    /\ UNCHANGED <<graphVars, db, load, saved, envVars>>

SaveInsertSnapshot ==
    /\ ~panicked
    /\ save.pc = "snapshot"
    /\ LET r == TxInsertSnapshot(db, save.tx, save.id, FormatRFC3339(clock), save.label)
       IN  IF r.err # NoErr
           THEN /\ db' = TxRollback(r.db, r.tx)
                /\ save' = SaveReturn("inserting snapshot")
           ELSE /\ db' = r.db
                /\ save' = [save EXCEPT !.pc = "rows", !.tx = r.tx, !.wrote = @ + 1]
    /\ UNCHANGED <<graphVars, load, saved, envVars>>

SaveInsertNode ==
    /\ ~panicked
    /\ save.pc = "rows"
    /\ \E n \in save.todo :
        LET r == TxInsertNode(db, save.tx, save.id, save.g.nodes[n].data)
        IN  /\ db' = r.db
            /\ save' = [save EXCEPT !.tx = r.tx, !.todo = @ \ {n}, !.wrote = @ + 1]
    /\ UNCHANGED <<graphVars, load, saved, envVars>>

SaveInsertEdge ==
    /\ ~panicked
    /\ save.pc = "rows"
    /\ save.todo = {}
    /\ save.ei <= Len(GetEdges(save.g))
    /\ LET r == TxInsertEdge(db, save.tx, save.id, GetEdges(save.g)[save.ei])
       IN  /\ db' = r.db
           /\ save' = [save EXCEPT !.tx = r.tx, !.ei = @ + 1, !.wrote = @ + 1]
    /\ UNCHANGED <<graphVars, load, saved, envVars>>

SaveCommit ==
    /\ ~panicked
    /\ save.pc = "rows"
    /\ save.todo = {}
    /\ save.ei > Len(GetEdges(save.g))
    /\ db' = TxCommit(db, save.tx)
    /\ save' = SaveReturn(NoErr)
    /\ saved' = (save.id :> save.g) @@ saved
    /\ commits' = Append(commits, save.id)
    /\ UNCHANGED <<graphVars, load, clock, cache, resolver, transport>>

\* A statement or the commit fails, or the context is cancelled: the call
\* returns the error and the deferred Rollback runs.
SaveFail ==
    /\ ~panicked
    /\ save.pc \in {"snapshot", "rows"}
    /\ db' = TxRollback(db, save.tx)
    /\ save' = SaveReturn("failed")
    /\ UNCHANGED <<graphVars, load, saved, envVars>>

\* The node query and the node loop.
LoadQueryNodes ==
    /\ ~panicked
    /\ load.pc \in {"idle", "done"}
    /\ \E id \in StoreIDs : \E rows \in QueryNodes(db, id) :
         load' = [pc |-> "edges", id |-> id, g |-> LoadNodes(New, rows), rows |-> 0,
                  afterSave |-> id \in DOMAIN saved, err |-> NoErr]
    /\ UNCHANGED <<graphVars, db, save, saved, envVars>>

\* The edge query and the edge loop.
LoadQueryEdges ==
    /\ load.pc = "edges"
    /\ ~panicked
    /\ \E rows \in QueryEdges(db, load.id) :
        LET r == LoadEdges(load.g, rows)
        IN  /\ load' = [load EXCEPT !.pc = "done", !.g = r.G, !.rows = Len(rows)]
            /\ panicked' = r.panic
    /\ UNCHANGED <<graph, last, db, save, saved, envVars>>

\* A query fails or the context is cancelled: (nil, err).
LoadFail ==
    /\ ~panicked
    /\ load.pc = "edges"
    /\ load' = [load EXCEPT !.pc = "done", !.g = New, !.err = "failed"]
    /\ UNCHANGED <<graphVars, db, save, saved, envVars>>

NextStore ==
    \/ SaveBegin \/ SaveInsertSnapshot \/ SaveInsertNode \/ SaveInsertEdge
    \/ SaveCommit \/ SaveFail
    \/ LoadQueryNodes \/ LoadQueryEdges \/ LoadFail

SpecStore == InitStore /\ [][NextStore]_vars

---------------------------------------------------------------------------
(* Listing snapshots.  SaveSnapshot calls run one after another while the  *)
(* wall clock advances; ListSnapshots reads the snapshots table and the    *)
(* resolver takes the first row as the latest snapshot.                    *)

MaxClock == 3
MaxListSaves == 3

ListIDs == {"s1", "s2", "s3"}

ListGraph == AddNodes(New, <<PathNode(1)>>)

Snapshot(id, createdAt, label) == [ID |-> id, CreatedAt |-> createdAt, Label |-> label]

\* SELECT ... FROM snapshots ORDER BY created_at DESC: rows with equal
\* created_at come in any order.
ListSnapshots(d) ==
    LET I == DOMAIN d.snapshots
    IN  {[k \in 1..Cardinality(I) |->
            Snapshot(q[k], d.snapshots[q[k]].created_at, d.snapshots[q[k]].label)] :
            q \in {x \in Perms(I) : \A i, j \in 1..Cardinality(I) :
                        i < j => d.snapshots[x[i]].created_at >= d.snapshots[x[j]].created_at}}

getLatestSnapshotID(snapshots) ==
    IF Len(snapshots) = 0
    THEN [id |-> "", err |-> "no snapshots found"]
    ELSE [id |-> snapshots[1].ID, err |-> NoErr]

InitList ==
    /\ graph = ListGraph
    /\ last = Call("New", <<>>, NoErr)
    /\ panicked = FALSE
    /\ StoreIdle
    /\ EnvIdle

ListTick ==
    /\ clock < MaxClock
    /\ clock' = clock + 1
    /\ UNCHANGED <<graphVars, storeVars, commits, cache, resolver, transport>>

ListSave ==
    /\ Len(commits) < MaxListSaves
    /\ \E id \in ListIDs : \E r \in SaveSnapshot(db, clock, id, id, graph) :
        /\ db' = r.db
        /\ save' = [IdleSave EXCEPT !.pc = "done", !.id = id, !.g = graph, !.err = r.err]
        /\ saved' = IF r.err = NoErr THEN (id :> graph) @@ saved ELSE saved
        /\ commits' = IF r.err = NoErr THEN Append(commits, id) ELSE commits
        /\ last' = Call("SaveSnapshot", id, r.err)
    /\ UNCHANGED <<graph, panicked, load, clock, cache, resolver, transport>>

ListList ==
    /\ \E rows \in ListSnapshots(db) :
         last' = [op |-> "ListSnapshots", arg |-> rows, err |-> NoErr,
                  latest |-> getLatestSnapshotID(rows)]
    /\ UNCHANGED <<graph, panicked, storeVars, envVars>>

NextList == ListTick \/ ListSave \/ ListList

SpecList == InitList /\ [][NextList]_vars

---------------------------------------------------------------------------
(* internal/reco: the least-privilege recommender.  An action string is a  *)
(* sequence of characters, so that suffix tests and sort.Strings are       *)
(* computed on the text.                                                   *)

RecommendDefaultCap == 20
RecommendMaxHops == 8

CharCode(c) ==
    CASE c = "*" -> 42 [] c = "/" -> 47 [] c = ":" -> 58
      [] c = "a" -> 97 [] c = "g" -> 103 [] c = "p" -> 112

\* Go's string comparison: byte-wise, a proper prefix is smaller.
RECURSIVE StrLeq(_, _)
StrLeq(x, y) ==
    IF x = <<>> THEN TRUE
    ELSE IF y = <<>> THEN FALSE
    ELSE IF Head(x) = Head(y) THEN StrLeq(Tail(x), Tail(y))
    ELSE CharCode(Head(x)) < CharCode(Head(y))

HasSuffix(val, suffix) ==
    /\ Len(val) >= Len(suffix)
    /\ SubSeq(val, Len(val) - Len(suffix) + 1, Len(val)) = suffix

HasPrefix(val, prefix) ==
    /\ Len(val) >= Len(prefix)
    /\ SubSeq(val, 1, Len(prefix)) = prefix

isWildcard(val) ==
    \/ val = <<"*">>
    \/ HasSuffix(val, <<":", "*">>)
    \/ HasSuffix(val, <<"/", "*">>)

hasWildcard(policy) ==
    \E key \in DOMAIN policy.Props.kv :
        /\ key \in {"action", "actions", "verbs", "resource", "resources"}
        /\ isWildcard(policy.Props.kv[key])

\* sort.Strings on a set of action strings.
RECURSIVE SortActions(_)
SortActions(A) ==
    IF A = {}
    THEN <<>>
    ELSE LET m == CHOOSE x \in A : \A y \in A : StrLeq(x, y)
         IN  <<m>> \o SortActions(A \ {m})

Truncate(q, n) == IF Len(q) > n THEN SubSeq(q, 1, n) ELSE q

findPrincipalsWithPolicy(G, policyID) ==
    LET es == SelectSeq(GetEdges(G), LAMBDA e :
                  e.Dst = policyID /\ e.Kind \in {"HAS_POLICY", "HAS_ROLE"})
    IN  [i \in 1..Len(es) |-> es[i].Src]

IDsOf(ns) == [i \in 1..Len(ns) |-> ns[i].ID]

\* reco's findSensitiveResources: one result for each order of GetNodes.
recoFindSensitiveResources(G) ==
    {IDsOf(SelectSeq(ns, LAMBDA n : n.Kind = "RESOURCE" /\ HasSensitive(n.Props))) :
        ns \in GetNodes(G)}

findAllResources(G) ==
    {IDsOf(SelectSeq(ns, LAMBDA n : n.Kind = "RESOURCE")) : ns \in GetNodes(G)}

PatchOp(path, value) == [op |-> "replace", path |-> path, value |-> value]

generateJSONPatch(policy, actions, resources) ==
    (IF Len(actions) > 0 THEN <<PatchOp("/Statement/0/Action", actions)>> ELSE <<>>)
    \o (IF Len(resources) > 0 THEN <<PatchOp("/Statement/0/Resource", resources)>> ELSE <<>>)

\* json.Marshal of the patch slice: a nil slice is "null".
MarshalPatch(patch) ==
    IF patch = <<>> THEN [json |-> "null", arr |-> <<>>] ELSE [json |-> "array", arr |-> patch]

Recommendation(policyID, actions, resources, patchJSON, rationale) ==
    [PolicyID |-> policyID, SuggestedActions |-> actions, SuggestedResources |-> resources,
     PatchJSON |-> patchJSON, Rationale |-> rationale, err |-> NoErr]

RecoError(err) ==
    [PolicyID |-> NoID, SuggestedActions |-> <<>>, SuggestedResources |-> <<>>,
     PatchJSON |-> [json |-> "null", arr |-> <<>>], Rationale |-> <<>>, err |-> err]

\* The loop over (principal, target) pairs and what follows it, for one
\* choice of the path ShortestPath returns for each pair.
RecommendFrom(G, policy, policyID, principals, targets, cap) ==
    LET pairs == (1..Len(principals)) \X (1..Len(targets))
        SP(pr) == ShortestPath(G, principals[pr[1]], targets[pr[2]], RecommendMaxHops)
        includesPolicy(r) ==
            r.err = NoErr /\ \E k \in 1..Len(r.nodes) : r.nodes[k].ID = policyID
        edgeActions(r) ==
            {r.edges[k].Props.kv["action"] :
                k \in {i \in 1..Len(r.edges) : "action" \in DOMAIN r.edges[i].Props.kv}}
    IN  { LET actions == UNION {edgeActions(c[pr]) : pr \in {q \in pairs : includesPolicy(c[q])}}
              resources == {targets[pr[2]] : pr \in {q \in pairs : includesPolicy(c[q])}}
              suggestedActions ==
                  Truncate(SortActions({act \in actions : ~isWildcard(act)}), cap)
              suggestedResources == Truncate(SortStrings(resources), cap)
              patch == generateJSONPatch(policy, suggestedActions, suggestedResources)
          IN  Recommendation(policyID, suggestedActions, suggestedResources,
                             MarshalPatch(patch),
                             <<"contains wildcard permissions", Len(principals), Len(targets),
                               Len(suggestedActions), Len(suggestedResources)>>)
          : c \in {f \in [pairs -> UNION {SP(pr) : pr \in pairs}] :
                      \A pr \in pairs : f[pr] \in SP(pr)} }

Recommend(G, policyID, targetID, tags, capArg) ==
    LET cap == IF capArg <= 0 THEN RecommendDefaultCap ELSE capArg
        p   == GetNode(G, policyID)
    IN  IF ~p.ok
        THEN {RecoError("policy not found")}
        ELSE IF ~hasWildcard(p.node)
        THEN {Recommendation(policyID, <<>>, <<>>, [json |-> "array", arr |-> <<>>],
                             <<"Policy does not contain wildcard permissions">>)}
        ELSE LET principals == findPrincipalsWithPolicy(G, policyID)
             IN  IF Len(principals) = 0
                 THEN {RecoError("no principals found with policy")}
                 ELSE UNION { RecommendFrom(G, p.node, policyID, principals, targets, cap) :
                                targets \in IF targetID # NoID THEN {<<targetID>>}
                                            ELSE IF Contains(tags, "sensitive")
                                            THEN recoFindSensitiveResources(G)
                                            ELSE findAllResources(G) }

---------------------------------------------------------------------------
(* The recommender on a drawn graph: principal 1, policy 2, resources 3    *)
(* and 4.                                                                  *)

MaxRecoEdges == 3

RecoActions ==
    { <<"a", ":", "g">>, <<"a", ":", "p">>, <<"*">>, <<"a", ":", "*">>,
      <<"a", "/", "*">>, <<"*", ":", "g">> }

RecoPolicies ==
    { Node(2, "POLICY", MkLabels(<<"aws", "policy">>), MkProps("action" :> <<"*">>)),
      Node(2, "POLICY", MkLabels(<<"aws", "policy">>), MkProps("resource" :> <<"a", "/", "*">>)),
      Node(2, "POLICY", MkLabels(<<"aws", "policy">>), MkProps("action" :> <<"a", ":", "g">>)) }

RecoResources ==
    { <<Node(3, "RESOURCE", MkLabels(<<"aws", "s3">>), MkProps(EmptyKV)),
        Node(4, "RESOURCE", MkLabels(<<"aws", "s3">>), MkProps(EmptyKV))>>,
      <<Node(3, "RESOURCE", MkLabels(<<"aws", "s3">>), MkProps(EmptyKV)),
        Node(4, "RESOURCE", MkLabels(<<"aws", "s3">>), MkProps("sensitive" :> "true"))>> }

RecoEdgeInputs ==
    { Edge(1, 2, "HAS_POLICY", MkProps(EmptyKV)),
      Edge(1, 2, "ATTACHED_POLICY", MkProps(EmptyKV)),
      Edge(1, 3, "ALLOWS_ACCESS", NilProps) }
    \cup { Edge(2, r, "ALLOWS_ACCESS", MkProps("action" :> act)) :
             r \in {3, 4}, act \in RecoActions }

\* The empty graph is among them.
RecoGraphs ==
    { AddEdges(AddNodes(New, <<PathNode(1), pol>> \o res), es).G :
        pol \in RecoPolicies, res \in RecoResources,
        es \in SeqsUpTo(RecoEdgeInputs, MaxRecoEdges) }
    \cup {New}

RecoCaps == {0, 1, 20}

InitReco ==
    /\ graph \in RecoGraphs
    /\ last = Call("New", <<>>, NoErr)
    /\ panicked = FALSE
    /\ StoreIdle
    /\ EnvIdle

DoRecommend ==
    /\ last.op = "New"
    /\ \E policyID \in {2, 3}, targetID \in {NoID, 3}, tags \in TagInputs, cap \in RecoCaps :
        \E r \in Recommend(graph, policyID, targetID, tags, cap) :
            last' = [op |-> "Recommend", arg |-> <<policyID, targetID, tags, cap>>,
                     err |-> r.err, rec |-> r]
    /\ UNCHANGED <<graph, panicked, storeVars, envVars>>

NextReco == DoRecommend

SpecReco == InitReco /\ [][NextReco]_vars

---------------------------------------------------------------------------
(* internal/policy: BuildInput projects a graph into the rule engine's     *)
(* input.  A name, an id or an action is a sequence (the empty sequence is *)
(* Go's empty string); a flag prop is "true" or "false".                   *)

\* m[key] on a Go map: the zero value when the key is absent.
PropText(props, key) == IF key \in DOMAIN props.kv THEN props.kv[key] ELSE <<>>
PropFlag(props, key) == IF key \in DOMAIN props.kv THEN props.kv[key] ELSE ""

StringsContains(val, c) == \E i \in 1..Len(val) : val[i] = c

NodesOf(G) == {G.nodes[id].data : id \in DOMAIN G.nodes}

RoleData(G, node) ==
    [arn |-> node.ID, name |-> PropText(node.Props, "name"),
     trust |-> [cross_account |->
                  \E i \in 1..Len(GetEdges(G)) :
                      /\ GetEdges(G)[i].Src = node.ID
                      /\ GetEdges(G)[i].Kind = "TRUSTS_CROSS_ACCOUNT"]]

\* Mutant: the kind of the destination node is not checked.
PermIsWildcard_AnyKind(permNode) ==
    \/ PropFlag(permNode.Props, "wildcard") = "true"
    \/ /\ "action" \in DOMAIN permNode.Props.kv
       /\ StringsContains(permNode.Props.kv["action"], "*")

PermIsWildcard(permNode) ==
    /\ permNode.Kind = "PERMISSION"
    /\ \/ PropFlag(permNode.Props, "wildcard") = "true"
       \/ /\ "action" \in DOMAIN permNode.Props.kv
          /\ StringsContains(permNode.Props.kv["action"], "*")

PolicyData(G, node) ==
    [id |-> node.ID, name |-> PropText(node.Props, "name"),
     action_matches_wildcard |->
        \E i \in 1..Len(GetEdges(G)) :
            /\ GetEdges(G)[i].Src = node.ID
            /\ GetEdges(G)[i].Kind = "ALLOWS_ACTION"
            /\ \E permNode \in NodesOf(G) :
                  permNode.ID = GetEdges(G)[i].Dst /\ PermIsWildcard(permNode)]

\* The name a BINDS_TO edge is filed under.
BindingName(G, edge) ==
    IF PropText(edge.Props, "binding") = <<>>
    THEN PropText(G.nodes[edge.Src].data.Props, "name")
    ELSE PropText(edge.Props, "binding")

IsBinding(G, edge) ==
    /\ edge.Kind = "BINDS_TO"
    /\ edge.Src \in DOMAIN G.nodes
    /\ G.nodes[edge.Src].data.Kind = "ROLE"

\* The bindings loop over the edge log: the first edge of a name files it.
RECURSIVE Bindings(_, _, _)
Bindings(G, i, acc) ==
    IF i > Len(GetEdges(G))
    THEN acc
    ELSE LET edge == GetEdges(G)[i]
         IN  IF IsBinding(G, edge) /\ BindingName(G, edge) \notin DOMAIN acc
             THEN LET node == G.nodes[edge.Src].data
                      isClusterAdmin ==
                          \/ PropFlag(node.Props, "cluster_admin") = "true"
                          \/ PropText(node.Props, "name") = <<"cluster-admin">>
                  IN  Bindings(G, i + 1,
                         (BindingName(G, edge) :>
                            [name |-> BindingName(G, edge), cluster_admin |-> isClusterAdmin])
                         @@ acc)
             ELSE Bindings(G, i + 1, acc)

\* The node loops range over GetNodes; node ids are unique, so the order
\* GetNodes gives does not show in the result.
BuildInput(G) ==
    [roles |-> [id \in {n.ID : n \in {m \in NodesOf(G) :
                        m.Kind = "PRINCIPAL" /\ Contains(m.Labels.s, "aws-role")}}
                  |-> RoleData(G, G.nodes[id].data)],
     policies |-> [id \in {n.ID : n \in {m \in NodesOf(G) : m.Kind = "POLICY"}}
                  |-> PolicyData(G, G.nodes[id].data)],
     k8s |-> [bindings |-> Bindings(G, 1, EmptyKV)]]

---------------------------------------------------------------------------
(* BuildInput on a drawn graph: nodes 1 and 2 are policies (or a role),    *)
(* nodes 3 and 4 are permissions or resources.                             *)

MaxInputEdges == 2

InputSources ==
    { Node(2, "POLICY", MkLabels(<<"TestPolicy">>), MkProps("name" :> <<"TestPolicy">>)),
      Node(2, "PRINCIPAL", MkLabels(<<"TestRole", "aws-role">>), MkProps("name" :> <<"TestRole">>)) }

InputPermData ==
    { <<"PERMISSION", MkProps("action" :> <<"a", ":", "*">> @@ "wildcard" :> "true")>>,
      <<"PERMISSION", MkProps("action" :> <<"a", ":", "*">> @@ "wildcard" :> "false")>>,
      <<"PERMISSION", MkProps("action" :> <<"a", ":", "g">> @@ "wildcard" :> "false")>>,
      <<"PERMISSION", NilProps>>,
      <<"RESOURCE", MkProps("wildcard" :> "true")>> }

InputEdgeInputs ==
    { Edge(src, dst, "ALLOWS_ACTION", MkProps(EmptyKV)) : src \in {1, 2}, dst \in {3, 4} }
    \cup { Edge(1, 3, "APPLIES_TO", MkProps(EmptyKV)),
           Edge(3, 4, "ALLOWS_ACTION", MkProps(EmptyKV)),
           Edge(2, 1, "TRUSTS_CROSS_ACCOUNT", MkProps(EmptyKV)) }

InputGraphs ==
    { AddEdges(AddNodes(New,
          << Node(1, "POLICY", MkLabels(<<"P1">>), NilProps), src,
             Node(3, d3[1], NilLabels, d3[2]), Node(4, d4[1], NilLabels, d4[2]) >>), es).G :
        src \in InputSources, d3 \in InputPermData, d4 \in InputPermData,
        es \in SeqsUpTo(InputEdgeInputs, MaxInputEdges) }

InitInput ==
    /\ graph \in InputGraphs
    /\ last = Call("New", <<>>, NoErr)
    /\ panicked = FALSE
    /\ StoreIdle
    /\ EnvIdle

DoBuildInput ==
    /\ last.op = "New"
    /\ last' = [op |-> "BuildInput", arg |-> <<>>, err |-> NoErr, input |-> BuildInput(graph)]
    /\ UNCHANGED <<graph, panicked, storeVars, envVars>>

NextInput == DoBuildInput

SpecInput == InitInput /\ [][NextInput]_vars

---------------------------------------------------------------------------
(* internal/ingest: the Kubernetes RBAC parser.  An id is the text that    *)
(* fmt.Sprintf builds: the pieces of the format and the metadata strings,  *)
(* in order.                                                               *)

Text(str) == IF str = "" THEN <<>> ELSE <<str>>

ParseResult(nodes, edges) == [Nodes |-> nodes, Edges |-> edges]

Merge(pr, other) == ParseResult(pr.Nodes \o other.Nodes, pr.Edges \o other.Edges)

K8sResource(kind, name, namespace, subjects, roleRef, rules, labels) ==
    [Kind |-> kind, Name |-> name, Namespace |-> namespace, Subjects |-> subjects,
     RoleRef |-> roleRef, Rules |-> rules, Labels |-> labels]

Subject(kind, name, namespace) == [Kind |-> kind, Name |-> name, Namespace |-> namespace]

Rule(verbs, resources) == [Verbs |-> verbs, Resources |-> resources]

ToLower(kind) ==
    CASE kind = "ClusterRole" -> "clusterrole" [] kind = "Role" -> "role"
      [] kind = "User" -> "user" [] kind = "Group" -> "group"
      [] OTHER -> kind

FormatBool(b) == IF b THEN "true" ELSE "false"

\* fmt.Sprintf("%s:%s", verb, res), the label of a permission node.
VerbResourceLabel(verb, res) ==
    CASE verb = "*" /\ res = "*" -> "*:*"
      [] verb = "*" /\ res = "pods" -> "*:pods"
      [] verb = "get" /\ res = "*" -> "get:*"
      [] verb = "get" /\ res = "pods" -> "get:pods"

ServiceAccountID(namespace, name) == <<"k8s:sa:">> \o Text(namespace) \o <<":">> \o Text(name)

RoleID(resource) ==
    IF resource.Kind = "Role" /\ resource.Namespace # ""
    THEN <<"k8s:role:">> \o Text(resource.Namespace) \o <<":">> \o Text(resource.Name)
    ELSE <<"k8s:role:">> \o Text(resource.Name)

RECURSIVE FlatMap(_, _, _)
FlatMap(F(_), q, i) == IF i > Len(q) THEN <<>> ELSE F(i) \o FlatMap(F, q, i + 1)

\* The rule loops: for each rule i, each verb and each resource.
RulePairs(resource) ==
    LET OfRule(i) ==
          LET rule == resource.Rules[i]
              OfVerb(v) ==
                 LET OfRes(r) == << <<i - 1, rule.Verbs[v], rule.Resources[r]>> >>
                 IN  FlatMap(OfRes, rule.Resources, 1)
          IN  FlatMap(OfVerb, rule.Verbs, 1)
    IN  FlatMap(OfRule, resource.Rules, 1)

PermID(roleID, i, verb, res) ==
    roleID \o <<"#rule", ToString(i), "#">> \o Text(verb) \o <<"#">> \o Text(res)

parseK8sResource(resource) ==
    CASE resource.Kind = "ServiceAccount" ->
           LET saID == ServiceAccountID(resource.Namespace, resource.Name)
               nsID == <<"k8s:ns:">> \o Text(resource.Namespace)
               sa   == Node(saID, "PRINCIPAL", MkLabels(<<resource.Name, "k8s-serviceaccount">>),
                            MkProps("name" :> Text(resource.Name)
                                    @@ "namespace" :> Text(resource.Namespace)))
           IN  IF resource.Namespace # ""
               THEN ParseResult(
                      <<sa, Node(nsID, "NAMESPACE", MkLabels(<<resource.Namespace>>),
                                 MkProps("name" :> Text(resource.Namespace)))>>,
                      <<Edge(saID, nsID, "IN_NAMESPACE", MkProps(EmptyKV))>>)
               ELSE ParseResult(<<sa>>, <<>>)
      [] resource.Kind \in {"ClusterRole", "Role"} ->
           LET roleID == RoleID(resource)
               isClusterAdmin == resource.Name = "cluster-admin"
               pairs == RulePairs(resource)
               role == Node(roleID, "ROLE",
                            MkLabels(<<resource.Name,
                                       IF resource.Kind = "Role" THEN "k8s-role"
                                       ELSE "k8s-clusterrole">>),
                            MkProps("name" :> Text(resource.Name)
                                    @@ "cluster_admin" :> FormatBool(isClusterAdmin)))
           IN  ParseResult(
                 <<role>> \o
                 [k \in 1..Len(pairs) |->
                    Node(PermID(roleID, pairs[k][1], pairs[k][2], pairs[k][3]), "PERMISSION",
                         MkLabels(<<VerbResourceLabel(pairs[k][2], pairs[k][3])>>),
                         MkProps("verb" :> Text(pairs[k][2]) @@ "resource" :> Text(pairs[k][3])
                                 @@ "wildcard" :>
                                      FormatBool(pairs[k][2] = "*" \/ pairs[k][3] = "*"))) ],
                 [k \in 1..Len(pairs) |->
                    Edge(roleID, PermID(roleID, pairs[k][1], pairs[k][2], pairs[k][3]),
                         "ALLOWS_ACTION", MkProps("rule_index" :> <<ToString(pairs[k][1])>>)) ])
      [] resource.Kind \in {"ClusterRoleBinding", "RoleBinding"} ->
           LET bindingID == <<"k8s:binding:">> \o Text(resource.Name)
               roleID    == <<"k8s:role:">> \o Text(resource.RoleRef)
               SubjectID(subject) ==
                   IF subject.Kind = "ServiceAccount"
                   THEN ServiceAccountID(IF subject.Namespace = "" THEN resource.Namespace
                                         ELSE subject.Namespace, subject.Name)
                   ELSE <<"k8s:", ToLower(subject.Kind), ":">> \o Text(subject.Name)
           IN  ParseResult(<<>>,
                 [k \in 1..Len(resource.Subjects) |->
                    Edge(roleID, SubjectID(resource.Subjects[k]), "BINDS_TO",
                         MkProps("binding" :> bindingID)) ])
      [] resource.Kind = "NetworkPolicy" ->
           \* Labels holds the "key=value" strings of the metadata labels.
           ParseResult(
             <<Node(<<"k8s:netpol:">> \o Text(resource.Namespace) \o <<":">> \o Text(resource.Name),
                    "RESOURCE", MkLabels(<<resource.Name>> \o resource.Labels),
                    MkProps("name" :> Text(resource.Name)
                            @@ "namespace" :> Text(resource.Namespace)
                            @@ "type" :> <<"NetworkPolicy">>))>>,
             <<>>)
      [] OTHER -> ParseResult(<<>>, <<>>)

\* The documents of the four files, in the order the files are read.
RECURSIVE ParseK8s(_)
ParseK8s(docs) ==
    IF docs = <<>>
    THEN ParseResult(<<>>, <<>>)
    ELSE LET rest == ParseK8s(SubSeq(docs, 1, Len(docs) - 1))
         IN  Merge(rest, parseK8sResource(docs[Len(docs)]))

---------------------------------------------------------------------------
(* Kubernetes documents parsed, built into a graph and projected.          *)

MaxK8sDocs == 3

TestServiceAccount == K8sResource("ServiceAccount", "test-sa", "default", <<>>, "", <<>>, <<>>)

TestClusterRole ==
    K8sResource("ClusterRole", "cluster-admin", "", <<>>, "", <<Rule(<<"*">>, <<"*">>)>>, <<>>)

TestBinding(subjectNamespace) ==
    K8sResource("ClusterRoleBinding", "test-binding", "",
                <<Subject("ServiceAccount", "test-sa", subjectNamespace)>>,
                "cluster-admin", <<>>, <<>>)

K8sDocs ==
    { TestServiceAccount,
      K8sResource("ServiceAccount", "test-sa", "", <<>>, "", <<>>, <<>>),
      TestClusterRole,
      K8sResource("ClusterRole", "viewer", "", <<>>, "",
                  <<Rule(<<"get">>, <<"pods", "*">>)>>, <<>>),
      K8sResource("Role", "viewer", "default", <<>>, "", <<>>, <<>>),
      TestBinding("default"),
      TestBinding(""),
      K8sResource("RoleBinding", "", "default",
                  <<Subject("ServiceAccount", "test-sa", ""), Subject("User", "alice", "")>>,
                  "viewer", <<>>, <<>>),
      K8sResource("NetworkPolicy", "deny", "default", <<>>, "", <<>>, <<"app=web">>) }

InitK8s ==
    /\ \E docs \in SeqsUpTo(K8sDocs, MaxK8sDocs) :
         last = [op |-> "docs", arg |-> docs, err |-> NoErr]
    /\ graph = New
    /\ panicked = FALSE
    /\ StoreIdle
    /\ EnvIdle

\* ParseK8s and the ingest driver's build loops.
K8sIngest ==
    /\ ~panicked
    /\ last.op = "docs"
    /\ LET result == ParseK8s(last.arg)
           r == AddEdges(AddNodes(New, result.Nodes), result.Edges)
       IN  /\ graph' = r.G
           /\ panicked' = r.panic
           /\ last' = [last EXCEPT !.op = "build"]
    /\ UNCHANGED <<storeVars, envVars>>

K8sBuildInput ==
    /\ ~panicked
    /\ last.op = "build"
    /\ last' = [op |-> "BuildInput", arg |-> last.arg, err |-> NoErr,
                input |-> BuildInput(graph)]
    /\ UNCHANGED <<graph, panicked, storeVars, envVars>>

NextK8s == K8sIngest \/ K8sBuildInput

SpecK8s == InitK8s /\ [][NextK8s]_vars

---------------------------------------------------------------------------
(* internal/api/graphql: the resolver's graph cache, an lru.Cache of       *)
(* maxCachedGraphs entries.  The cache is the list of its entries, most    *)
(* recently used first.  A *graph.Graph is named by the LoadSnapshot call  *)
(* that allocated it: <<id, k>> is the graph of the k-th load of id.       *)

maxCachedGraphs == 16

NilGraph == <<>>

Entry(key, value) == [key |-> key, value |-> value]

Keys(c) == {c[i].key : i \in 1..Len(c)}

IndexOf(c, key) == CHOOSE i \in 1..Len(c) : c[i].key = key

Without(c, key) == SelectSeq(c, LAMBDA en : en.key # key)

\* Mutant: Get does not count as a use (the entry keeps its place).
lruGet_NoTouch(c, key) ==
    IF key \in Keys(c)
    THEN [cache |-> c, value |-> c[IndexOf(c, key)].value, ok |-> TRUE]
    ELSE [cache |-> c, value |-> NilGraph, ok |-> FALSE]

\* lru.Cache.Get: a hit moves the entry to the front.
lruGet(c, key) ==
    IF key \in Keys(c)
    THEN [cache |-> <<c[IndexOf(c, key)]>> \o Without(c, key),
          value |-> c[IndexOf(c, key)].value, ok |-> TRUE]
    ELSE [cache |-> c, value |-> NilGraph, ok |-> FALSE]

\* lru.Cache.Add: an existing key is updated and moved to the front; a new
\* key is put at the front and the oldest entry goes when the size is passed.
lruAdd(c, key, value) ==
    IF key \in Keys(c)
    THEN <<Entry(key, value)>> \o Without(c, key)
    ELSE LET c2 == <<Entry(key, value)>> \o c
         IN  IF Len(c2) > maxCachedGraphs THEN SubSeq(c2, 1, maxCachedGraphs) ELSE c2

LoadCount(id) == IF id \in DOMAIN resolver.loads THEN resolver.loads[id] ELSE 0

\* The ids in the order of their last use, latest first.
Touch(uses, id) == <<id>> \o SelectSeq(uses, LAMBDA u : u # id)

\* store.LoadSnapshot as the resolver sees it: the call is counted and it
\* allocates a new graph.
NewGraph(id) == <<id, LoadCount(id) + 1>>

ResolverLoaded(id) ==
    [resolver EXCEPT !.loads = (id :> LoadCount(id) + 1) @@ @, !.heap = @ + 1]

---------------------------------------------------------------------------
(* loadGraph calls made one after another, on more snapshot ids than the   *)
(* cache holds.  A call takes a new id (ids are taken in order) or one of  *)
(* the HotIDs; LoadSnapshot can fail for the FailIDs.                      *)

MaxCacheIDs == 18
MaxLoadsPerID == 2
HotIDs == {1, 2}
FailIDs == {2}

CacheCallIDs ==
    LET used == Cardinality(DOMAIN resolver.loads)
    IN  (HotIDs \cap 1..used) \cup (IF used < MaxCacheIDs THEN {used + 1} ELSE {})

InitCache ==
    /\ graph = New
    /\ last = Call("New", <<>>, NoErr)
    /\ panicked = FALSE
    /\ StoreIdle
    /\ EnvIdle

\* loadGraph finds the id in the cache.
CacheHit ==
    /\ \E id \in CacheCallIDs :
        LET r == lruGet(cache, id)
        IN  /\ r.ok
            /\ cache' = r.cache
            /\ resolver' = [resolver EXCEPT !.uses = Touch(@, id)]
            /\ last' = [op |-> "loadGraph", arg |-> id, err |-> NoErr, g |-> r.value,
                        hit |-> TRUE]
    /\ UNCHANGED <<graph, panicked, storeVars, clock, commits, transport>>

\* loadGraph misses, LoadSnapshot succeeds and the graph is cached.
CacheMiss ==
    /\ \E id \in CacheCallIDs :
        LET r == lruGet(cache, id)
        IN  /\ ~r.ok
            /\ LoadCount(id) < MaxLoadsPerID
            /\ cache' = lruAdd(r.cache, id, NewGraph(id))
            /\ resolver' = [ResolverLoaded(id) EXCEPT !.uses = Touch(@, id)]
            /\ last' = [op |-> "loadGraph", arg |-> id, err |-> NoErr,
                        g |-> NewGraph(id), hit |-> FALSE]
    /\ UNCHANGED <<graph, panicked, storeVars, clock, commits, transport>>

\* loadGraph misses and LoadSnapshot fails: (nil, err), nothing is cached.
CacheLoadFails ==
    /\ \E id \in CacheCallIDs \cap FailIDs :
        LET r == lruGet(cache, id)
        IN  /\ ~r.ok
            /\ LoadCount(id) < MaxLoadsPerID
            /\ cache' = r.cache
            /\ resolver' = ResolverLoaded(id)
            /\ last' = [op |-> "loadGraph", arg |-> id, err |-> "load failed",
                        g |-> NilGraph, hit |-> FALSE]
    /\ UNCHANGED <<graph, panicked, storeVars, clock, commits, transport>>

NextCache == CacheHit \/ CacheMiss \/ CacheLoadFails

SpecCache == InitCache /\ [][NextCache]_vars

---------------------------------------------------------------------------
(* Concurrent loadGraph calls: each goroutine makes one call, step by      *)
(* step (cache.get, store.LoadSnapshot, cache.set).                        *)

MaxProcs == 3
Procs == 1..MaxProcs
FlightIDs == {1, 2}

InFlight(id) ==
    {q \in DOMAIN resolver.calls :
        resolver.calls[q].id = id /\ resolver.calls[q].pc # "done"}

LoadGraphCall(pc, id, g, err, overlap) ==
    [pc |-> pc, id |-> id, g |-> g, err |-> err, overlap |-> overlap]

InitFlight ==
    /\ graph = New
    /\ last = Call("New", <<>>, NoErr)
    /\ panicked = FALSE
    /\ StoreIdle
    /\ EnvIdle

\* r.cache.get: a hit returns the cached graph, a miss goes on to the store.
\* overlap names the calls for the same id that missed and are still running.
FlightGet ==
    /\ \E p \in Procs \ DOMAIN resolver.calls, id \in FlightIDs :
        LET r == lruGet(cache, id)
        IN  /\ cache' = r.cache
            /\ resolver' =
                  [resolver EXCEPT
                     !.calls = (p :> IF r.ok
                                     THEN LoadGraphCall("done", id, r.value, NoErr, {})
                                     ELSE LoadGraphCall("load", id, NilGraph, NoErr, InFlight(id)))
                               @@ @,
                     !.uses = IF r.ok THEN Touch(@, id) ELSE @]
    /\ UNCHANGED <<graphVars, storeVars, clock, commits, transport>>

\* r.store.LoadSnapshot returns a graph.
FlightLoad ==
    /\ \E p \in DOMAIN resolver.calls :
        /\ resolver.calls[p].pc = "load"
        /\ resolver' =
              [ResolverLoaded(resolver.calls[p].id) EXCEPT
                 !.calls[p].pc = "set", !.calls[p].g = NewGraph(resolver.calls[p].id)]
    /\ UNCHANGED <<graphVars, storeVars, clock, commits, cache, transport>>

\* r.store.LoadSnapshot fails: (nil, err).
FlightLoadFails ==
    /\ \E p \in DOMAIN resolver.calls :
        /\ resolver.calls[p].pc = "load"
        /\ resolver.calls[p].id \in FailIDs
        /\ resolver' =
              [ResolverLoaded(resolver.calls[p].id) EXCEPT
                 !.calls[p].pc = "done", !.calls[p].err = "load failed"]
    /\ UNCHANGED <<graphVars, storeVars, clock, commits, cache, transport>>

\* r.cache.set and the return.
FlightSet ==
    /\ \E p \in DOMAIN resolver.calls :
        /\ resolver.calls[p].pc = "set"
        /\ cache' = lruAdd(cache, resolver.calls[p].id, resolver.calls[p].g)
        /\ resolver' = [resolver EXCEPT !.calls[p].pc = "done",
                                         !.uses = Touch(@, resolver.calls[p].id)]
    /\ UNCHANGED <<graphVars, storeVars, clock, commits, transport>>

NextFlight == FlightGet \/ FlightLoad \/ FlightLoadFails \/ FlightSet

SpecFlight == InitFlight /\ [][NextFlight]_vars

---------------------------------------------------------------------------
(* internal/log: Redact.  A message is a sequence of characters; the three *)
(* regular expressions are matched as Go's regexp does (leftmost match,    *)
(* greedy repetition, matches do not overlap).                             *)

AccountIDLen == 12

IsDigit(c) == c \in {"0", "1", "2", "3", "4", "5", "6", "7", "8", "9"}

\* \s
IsSpace(c) == c \in {" ", "\t", "\n", "\r", "\f"}

NotSpace(c) == ~IsSpace(c)

IsLower(c) ==
    c \in {"a", "b", "c", "d", "e", "f", "g", "h", "i", "j", "k", "l", "m",
           "n", "o", "p", "q", "r", "s", "t", "u", "v", "w", "x", "y", "z"}

\* [a-z0-9\-]
IsArnField(c) == IsLower(c) \/ IsDigit(c) \/ c = "-"

\* [\s:=]
IsSeparator(c) == IsSpace(c) \/ c \in {":", "="}

\* (?i): the upper-case letters of the keywords fold to lower case.
FoldCase(c) ==
    CASE c = "S" -> "s" [] c = "E" -> "e" [] c = "C" -> "c" [] c = "R" -> "r"
      [] c = "T" -> "t" [] c = "P" -> "p" [] c = "A" -> "a" [] c = "W" -> "w"
      [] c = "O" -> "o" [] c = "D" -> "d" [] c = "K" -> "k" [] c = "N" -> "n"
      [] c = "Y" -> "y" [] OTHER -> c

Stars(n) == [i \in 1..n |-> "*"]

\* The index after the longest run of characters of the class from i on.
RECURSIVE RunEnd(_, _, _)
RunEnd(InClass(_), msg, i) ==
    IF i <= Len(msg) /\ InClass(msg[i]) THEN RunEnd(InClass, msg, i + 1) ELSE i

HasLiteralAt(msg, i, literal) ==
    /\ i + Len(literal) - 1 <= Len(msg)
    /\ SubSeq(msg, i, i + Len(literal) - 1) = literal

DigitsAt(msg, i, n) ==
    /\ i + n - 1 <= Len(msg)
    /\ \A j \in i..(i + n - 1) : IsDigit(msg[j])

\* arnPattern matched at i: the index after the match, 0 for no match.
ArnMatchEnd(msg, i) ==
    IF ~HasLiteralAt(msg, i, <<"a", "r", "n", ":", "a", "w", "s", ":">>)
    THEN 0
    ELSE LET svc    == i + Len(<<"a", "r", "n", ":", "a", "w", "s", ":">>)
             svcEnd == RunEnd(IsArnField, msg, svc)
         IN  IF svcEnd = svc \/ ~HasLiteralAt(msg, svcEnd, <<":">>)
             THEN 0
             ELSE LET regEnd == RunEnd(IsArnField, msg, svcEnd + 1)
                      acct   == regEnd + 1
                      rest   == acct + AccountIDLen + 1
                  IN  IF \/ ~HasLiteralAt(msg, regEnd, <<":">>)
                         \/ ~DigitsAt(msg, acct, AccountIDLen)
                         \/ ~HasLiteralAt(msg, acct + AccountIDLen, <<":">>)
                         \/ RunEnd(NotSpace, msg, rest) = rest
                      THEN 0
                      ELSE RunEnd(NotSpace, msg, rest)

\* strings.Split(s, ":")
RECURSIVE Split(_, _)
Split(str, sep) ==
    IF \E i \in 1..Len(str) : str[i] = sep
    THEN LET i == CHOOSE k \in 1..Len(str) :
                     str[k] = sep /\ \A j \in 1..(k - 1) : str[j] # sep
         IN  <<SubSeq(str, 1, i - 1)>> \o Split(SubSeq(str, i + 1, Len(str)), sep)
    ELSE <<str>>

\* strings.Join(parts, ":")
RECURSIVE Join(_, _)
Join(parts, sep) ==
    IF Len(parts) = 0 THEN <<>>
    ELSE IF Len(parts) = 1 THEN parts[1]
    ELSE parts[1] \o <<sep>> \o Join(Tail(parts), sep)

\* The replacement function of the ARN pass: parts[4] = "***".
RedactArn(match) ==
    LET parts == Split(match, ":")
    IN  Join(IF Len(parts) >= 5 THEN [parts EXCEPT ![5] = Stars(3)] ELSE parts, ":")

RECURSIVE ArnPass(_, _)
ArnPass(msg, i) ==
    IF i > Len(msg) THEN <<>>
    ELSE IF ArnMatchEnd(msg, i) # 0
    THEN RedactArn(SubSeq(msg, i, ArnMatchEnd(msg, i) - 1)) \o ArnPass(msg, ArnMatchEnd(msg, i))
    ELSE <<msg[i]>> \o ArnPass(msg, i + 1)

\* Mutant: only the first account id is replaced (ReplaceAllString became a
\* single replacement).
RECURSIVE AccountPass_FirstOnly(_, _)
AccountPass_FirstOnly(msg, i) ==
    IF i > Len(msg) THEN <<>>
    ELSE IF DigitsAt(msg, i, AccountIDLen)
    THEN Stars(AccountIDLen) \o SubSeq(msg, i + AccountIDLen, Len(msg))
    ELSE <<msg[i]>> \o AccountPass_FirstOnly(msg, i + 1)

RECURSIVE AccountPass(_, _)
AccountPass(msg, i) ==
    IF i > Len(msg) THEN <<>>
    ELSE IF DigitsAt(msg, i, AccountIDLen)
    THEN Stars(AccountIDLen) \o AccountPass(msg, i + AccountIDLen)
    ELSE <<msg[i]>> \o AccountPass(msg, i + 1)

SecretKeywords ==
    << <<"s", "e", "c", "r", "e", "t">>, <<"p", "a", "s", "s", "w", "o", "r", "d">>,
       <<"t", "o", "k", "e", "n">>, <<"k", "e", "y">> >>

\* The index after the keyword found at i (alternatives in order), 0 for none.
KeywordEnd(msg, i) ==
    LET folded == [j \in 1..Len(msg) |-> FoldCase(msg[j])]
        hits   == {k \in 1..Len(SecretKeywords) : HasLiteralAt(folded, i, SecretKeywords[k])}
    IN  IF hits = {} THEN 0
        ELSE i + Len(SecretKeywords[CHOOSE k \in hits : \A h \in hits : k <= h])

\* secretPattern matched at i: the index after the match, 0 for no match.
\* [\s:=]+ takes the longest run that still leaves a non-space character
\* for [^\s]+, which then runs to the next space.
SecretMatchEnd(msg, i) ==
    LET sep    == KeywordEnd(msg, i)
        sepEnd == RunEnd(IsSeparator, msg, sep)
        starts == {v \in (sep + 1)..sepEnd : v <= Len(msg) /\ NotSpace(msg[v])}
    IN  IF sep = 0 \/ starts = {}
        THEN 0
        ELSE RunEnd(NotSpace, msg, CHOOSE v \in starts : \A w \in starts : w <= v)

\* strings.IndexAny(s, ":= "), 0-based; -1 when none.
IndexAny(str, chars) ==
    IF \E i \in 1..Len(str) : str[i] \in chars
    THEN (CHOOSE k \in 1..Len(str) :
             str[k] \in chars /\ \A j \in 1..(k - 1) : str[j] \notin chars) - 1
    ELSE -1

\* The replacement function of the secret pass.
RedactSecret(match) ==
    LET idx == IndexAny(match, {":", "=", " "})
    IN  IF idx > 0 THEN SubSeq(match, 1, idx + 1) \o Stars(3) ELSE Stars(3)

RECURSIVE SecretPass(_, _)
SecretPass(msg, i) ==
    IF i > Len(msg) THEN <<>>
    ELSE IF SecretMatchEnd(msg, i) # 0
    THEN RedactSecret(SubSeq(msg, i, SecretMatchEnd(msg, i) - 1))
         \o SecretPass(msg, SecretMatchEnd(msg, i))
    ELSE <<msg[i]>> \o SecretPass(msg, i + 1)

Redact(msg) == SecretPass(AccountPass(ArnPass(msg, 1), 1), 1)

(* One message is written through the redacting logger.                   *)

MaxRedactChunks == 4

\* The pieces messages are put together from: an ARN head, an account id, a
\* half account id, one digit, an ARN tail, white space and secret keywords.
RedactChunks ==
    { <<"a", "r", "n", ":", "a", "w", "s", ":", "i", "a", "m", ":", ":">>,
      <<"1", "1", "1", "1", "1", "1", "1", "1", "1", "1", "1", "1">>,
      <<"2", "2", "2", "2", "2", "2">>,
      <<"3">>,
      <<":", "r", "o", "l", "e", "/", "x">>,
      <<" ">>,
      <<"k", "e", "y", "=">>,
      <<"S", "e", "c", "r", "e", "t", ":", " ">> }

RECURSIVE Concat(_)
Concat(chunks) == IF chunks = <<>> THEN <<>> ELSE Head(chunks) \o Concat(Tail(chunks))

RedactMessages ==
    { Concat(chunks) : chunks \in UNION { [1..n -> RedactChunks] : n \in 0..MaxRedactChunks } }

InitRedact ==
    /\ graph = New
    /\ last \in { Call("New", msg, NoErr) : msg \in RedactMessages }
    /\ panicked = FALSE
    /\ StoreIdle
    /\ EnvIdle

\* RedactWriter.Write / Printf: the message is redacted, then written.
DoRedact ==
    /\ last.op = "New"
    /\ last' = [op |-> "Redact", arg |-> last.arg, err |-> NoErr, out |-> Redact(last.arg)]
    /\ UNCHANGED <<graph, panicked, storeVars, envVars>>

NextRedact == DoRedact

SpecRedact == InitRedact /\ [][NextRedact]_vars

---------------------------------------------------------------------------
(* internal/config: the offline transport.  A host (req.URL.Hostname()) is *)
(* the sequence of its labels, numbers and separators, so that             *)
(* "169.254.169.254" is <<"169", ".", "254", ".", "169", ".", "254">>.     *)

IMDSHost == <<"169", ".", "254", ".", "169", ".", "254">>

isIMDS(host) == host = IMDSHost

\* The value of a decimal field of a dotted quad.
Octet ==
    [ t \in {"0", "1", "8", "10", "16", "32", "127", "168", "169", "172", "192", "254"} |->
        CASE t = "0" -> 0 [] t = "1" -> 1 [] t = "8" -> 8 [] t = "10" -> 10
          [] t = "16" -> 16 [] t = "32" -> 32 [] t = "127" -> 127 [] t = "168" -> 168
          [] t = "169" -> 169 [] t = "172" -> 172 [] t = "192" -> 192 [] t = "254" -> 254 ]

\* The value of a hexadecimal group of an IPv6 address.
Hextet ==
    [ t \in {"0", "1", "254", "ec2", "2001", "4860", "8888", "fd00", "ffff"} |->
        CASE t = "0" -> 0 [] t = "1" -> 1 [] t = "254" -> 596 [] t = "ec2" -> 3778
          [] t = "2001" -> 8193 [] t = "4860" -> 18528 [] t = "8888" -> 34952
          [] t = "fd00" -> 64768 [] t = "ffff" -> 65535 ]

NilIP == <<>>

IsDottedQuad(part) ==
    /\ Len(part) = 7
    /\ \A i \in {2, 4, 6} : part[i] = "."
    /\ \A i \in {1, 3, 5, 7} : part[i] \in DOMAIN Octet

\* The two 16-bit groups a dotted quad fills.
QuadGroups(part) ==
    << Octet[part[1]] * 256 + Octet[part[3]], Octet[part[5]] * 256 + Octet[part[7]] >>

IsGroup(part) == Len(part) = 1 /\ part[1] \in DOMAIN Hextet

Zeros(n) == [i \in 1..n |-> 0]

RECURSIVE GroupsOf(_)
GroupsOf(parts) ==
    IF parts = <<>> THEN <<>>
    ELSE IF IsDottedQuad(Head(parts)) THEN QuadGroups(Head(parts)) \o GroupsOf(Tail(parts))
    ELSE <<Hextet[Head(parts)[1]]>> \o GroupsOf(Tail(parts))

\* net.ParseIP: the address as eight 16-bit groups (an IPv4 address in its
\* IPv4-mapped form), NilIP when the text is not an address.  IPv6 text is
\* groups between ":" with at most one "::", and may end in a dotted quad.
ParseIP(host) ==
    IF IsDottedQuad(host)
    THEN Zeros(5) \o <<65535>> \o QuadGroups(host)
    ELSE LET parts  == Split(host, ":")
             empty  == {i \in 1..Len(parts) : parts[i] = <<>>}
             first  == CHOOSE i \in empty : \A j \in empty : i <= j
             final  == CHOOSE i \in empty : \A j \in empty : j <= i
             before == IF empty = {} THEN parts ELSE SubSeq(parts, 1, first - 1)
             after  == IF empty = {} THEN <<>> ELSE SubSeq(parts, final + 1, Len(parts))
             given  == before \o after
             wellFormed ==
                 /\ Len(parts) >= 3
                 /\ \A i \in 1..Len(given) :
                        \/ IsGroup(given[i])
                        \/ i = Len(given) /\ IsDottedQuad(given[i])
                 /\ empty # {} => \/ final = first
                                  \/ final = first + 1 /\ (first = 1 \/ final = Len(parts))
                                  \/ first = 1 /\ final = 3 /\ Len(parts) = 3
         IN  IF ~wellFormed THEN NilIP
             ELSE LET groups == GroupsOf(given)
                  IN  IF empty = {}
                      THEN IF Len(groups) = 8 THEN groups ELSE NilIP
                      ELSE IF Len(groups) <= 7
                      THEN GroupsOf(before) \o Zeros(8 - Len(groups)) \o GroupsOf(after)
                      ELSE NilIP

\* IP.To4: the four bytes of an IPv4 or IPv4-mapped address, NilIP otherwise.
To4(ip) ==
    IF SubSeq(ip, 1, 6) = Zeros(5) \o <<65535>>
    THEN <<ip[7] \div 256, ip[7] % 256, ip[8] \div 256, ip[8] % 256>>
    ELSE NilIP

IPv6loopback == Zeros(7) \o <<1>>

IsLoopback(ip) ==
    IF To4(ip) # NilIP THEN To4(ip)[1] = 127 ELSE ip = IPv6loopback

\* 10.0.0.0/8, 172.16.0.0/12, 192.168.0.0/16 and fc00::/7.
IsPrivate(ip) ==
    IF To4(ip) # NilIP
    THEN \/ To4(ip)[1] = 10
         \/ To4(ip)[1] = 172 /\ To4(ip)[2] \div 16 = 1
         \/ To4(ip)[1] = 192 /\ To4(ip)[2] = 168
    ELSE ip[1] \div 512 = 126

isRFC1918External(host) ==
    IF ParseIP(host) = NilIP THEN TRUE
    ELSE ~IsLoopback(ParseIP(host)) /\ ~IsPrivate(ParseIP(host))

isLocalhost(host) ==
    IF host = <<"localhost">> \/ host = <<"127", ".", "0", ".", "0", ".", "1">>
          \/ host = <<":", ":", "1">>
    THEN TRUE
    ELSE IF ~StringsContains(host, ".") THEN TRUE
    ELSE IF ParseIP(host) # NilIP
    THEN IsLoopback(ParseIP(host)) \/ IsPrivate(ParseIP(host))
    ELSE FALSE

offlineTransport(blockIMDS, blockRFC1918) ==
    [blockIMDS |-> blockIMDS, blockRFC1918 |-> blockRFC1918]

ErrIMDSBlocked == "security: IMDS access blocked (169.254.169.254)"
ErrExternalBlocked == "offline mode: external network access blocked"
ErrEgressBlocked == "offline mode: network egress blocked"

\* RoundTrip of the transport chain t (outermost wrapper first; the empty
\* chain is the net/http transport, which sends the request): the error
\* returned, how many wrappers passed the request on, whether it was sent.
RECURSIVE RoundTrip(_, _)
RoundTrip(t, host) ==
    IF t = <<>>
    THEN [err |-> NoErr, passed |-> 0, sent |-> TRUE]
    ELSE IF Head(t).blockIMDS /\ isIMDS(host)
    THEN [err |-> ErrIMDSBlocked, passed |-> 0, sent |-> FALSE]
    ELSE IF isLocalhost(host)
    THEN [RoundTrip(Tail(t), host) EXCEPT !.passed = @ + 1]
    ELSE IF Head(t).blockRFC1918 /\ isRFC1918External(host)
    THEN [err |-> ErrExternalBlocked, passed |-> 0, sent |-> FALSE]
    ELSE [err |-> ErrEgressBlocked, passed |-> 0, sent |-> FALSE]

EnableOfflineMode(t, alwaysBlockIMDS) == <<offlineTransport(alwaysBlockIMDS, TRUE)>> \o t

EnableOnlineModeWithIMDSBlock(t) == <<offlineTransport(TRUE, FALSE)>> \o t

(* The process sets its network mode and then makes requests.              *)

MaxWrappers == 2

DottedQuad(a, b, c, d) == <<a, ".", b, ".", c, ".", d>>

NetHosts ==
    { <<"localhost">>, <<"opa">>, <<"api">>, <<"example", ".", "com">>,
      <<":", ":", "1">>,
      <<"2001", ":", "4860", ":", "4860", ":", ":", "8888">>,
      <<"fd00", ":", "ec2", ":", ":", "254">>,
      <<":", ":", "ffff", ":", "10", ".", "0", ".", "0", ".", "1">>,
      <<":", ":", "ffff", ":", "8", ".", "8", ".", "8", ".", "8">>,
      DottedQuad("8", "8", "8", "8") }
    \cup { DottedQuad(a, b, c, d) : a \in {"10", "127", "169", "172", "192"},
                                     b \in {"0", "16", "32", "168", "254"},
                                     c \in {"0", "169"},
                                     d \in {"1", "254"} }

InitNet ==
    /\ graph = New
    /\ last = Call("New", <<>>, NoErr)
    /\ panicked = FALSE
    /\ StoreIdle
    /\ EnvIdle

NetEnableOfflineMode ==
    \E alwaysBlockIMDS \in BOOLEAN :
        /\ Len(transport) < MaxWrappers
        /\ transport' = EnableOfflineMode(transport, alwaysBlockIMDS)
        /\ last' = Call("EnableOfflineMode", alwaysBlockIMDS, NoErr)
        /\ UNCHANGED <<graph, panicked, storeVars, clock, commits, cache, resolver>>

NetEnableOnlineModeWithIMDSBlock ==
    /\ Len(transport) < MaxWrappers
    /\ transport' = EnableOnlineModeWithIMDSBlock(transport)
    /\ last' = Call("EnableOnlineModeWithIMDSBlock", <<>>, NoErr)
    /\ UNCHANGED <<graph, panicked, storeVars, clock, commits, cache, resolver>>

NetRoundTrip ==
    \E host \in NetHosts :
        /\ last' = [op |-> "RoundTrip", arg |-> host, err |-> RoundTrip(transport, host).err,
                    passed |-> RoundTrip(transport, host).passed,
                    sent |-> RoundTrip(transport, host).sent]
        /\ UNCHANGED <<graph, panicked, storeVars, envVars>>

NextNet == NetEnableOfflineMode \/ NetEnableOnlineModeWithIMDSBlock \/ NetRoundTrip

SpecNet == InitNet /\ [][NextNet]_vars

---------------------------------------------------------------------------
(* A graph that was saved is marked in memory and loaded again.  The ids   *)
(* 1 and 2 may be nodes; the id 3 never is.                                *)

MaxMarkEdges == 2

MarkNodeInputs ==
    { Node(1, "RESOURCE", MkLabels(<<"aws", "s3">>), MkProps(EmptyKV)),
      Node(1, "RESOURCE", NilLabels, NilProps),
      Node(1, "RESOURCE", MkLabels(<<>>), MkProps("name" :> "bkt")),
      Node(2, "PRINCIPAL", MkLabels(<<"r">>), MkProps("arn" :> "a" @@ "sensitive" :> "false")),
      Node(2, "RESOURCE", MkLabels(<<"aws">>), MkProps("name" :> "n")) }

MarkEdgeInputs ==
    { Edge(1, 2, "ATTACHED_POLICY", NilProps),
      Edge(2, 1, "ASSUMES_ROLE", MkProps("action" :> "sts:AssumeRole")),
      Edge(2, 1, "ALLOWS_ACTION", MkProps("sensitive" :> "false")) }

MarkGraphs ==
    { AddEdges(AddNodes(New, N), E).G :
        N \in SeqsUpTo(MarkNodeInputs, 2), E \in SeqsUpTo(MarkEdgeInputs, MaxMarkEdges) }

InitMark ==
    /\ graph \in MarkGraphs
    /\ \E r \in SaveSnapshot(EmptyDB, 0, RoundID, RoundID, graph) :
        /\ r.err = NoErr
        /\ db = r.db
    /\ saved = (RoundID :> graph)
    /\ save = IdleSave
    /\ load = IdleLoad
    /\ last = Call("SaveSnapshot", <<RoundID>>, NoErr)
    /\ panicked = FALSE
    /\ EnvIdle

MarkMarkSensitive ==
    \E id \in NodeIDs :
        LET r == MarkSensitive(graph, id)
        IN  /\ graph' = r.G
            /\ last' = Call("MarkSensitive", <<id>>, r.err)
            /\ UNCHANGED <<panicked, storeVars, envVars>>

MarkLoadSnapshot ==
    \E r \in LoadSnapshot(db, RoundID) :
        /\ load' = [IdleLoad EXCEPT !.pc = "done", !.id = RoundID, !.g = r.G,
                                    !.afterSave = TRUE]
        /\ last' = Call("LoadSnapshot", <<RoundID>>, NoErr)
        /\ UNCHANGED <<graph, panicked, db, save, saved, envVars>>

NextMark == MarkMarkSensitive \/ MarkLoadSnapshot

SpecMark == InitMark /\ [][NextMark]_vars

---------------------------------------------------------------------------
(* Graph.GetNeighbors.  gonum's From and To iterate a map: the neighbors   *)
(* of each direction come in any order, each neighbor once.                *)

To(dg, nid) == {e[1] : e \in {x \in dg.edges : x[2] = nid}}

lookupEdgeKind(G, srcID, dstID) ==
    IF /\ srcID \in DOMAIN G.edgeIndex
       /\ dstID \in DOMAIN G.edgeIndex[srcID]
       /\ Len(G.edgeIndex[srcID][dstID]) > 0
    THEN G.edgeIndex[srcID][dstID][1].Kind
    ELSE ""

\* One loop of GetNeighbors over the gonum ids in the order given; outbound
\* tells which way the edge kind is looked up.
RECURSIVE NeighborLoop(_, _, _, _, _)
NeighborLoop(G, id, kinds, order, outbound) ==
    IF order = <<>>
    THEN [neighbors |-> <<>>, edgeKinds |-> <<>>]
    ELSE LET neighborNodeID == G.nodesByID[Head(order)]
             neighborData   == G.nodes[neighborNodeID].data
             rest           == NeighborLoop(G, id, kinds, Tail(order), outbound)
         IN  IF Len(kinds) = 0 \/ \E i \in 1..Len(kinds) : kinds[i] = neighborData.Kind
             THEN [neighbors |-> <<neighborData>> \o rest.neighbors,
                   edgeKinds |-> <<IF outbound THEN lookupEdgeKind(G, id, neighborNodeID)
                                               ELSE lookupEdgeKind(G, neighborNodeID, id)>>
                                 \o rest.edgeKinds]
             ELSE rest

\* The results GetNeighbors can return.
GetNeighbors(G, id, kinds) ==
    IF id \notin DOMAIN G.nodes
    THEN {[neighbors |-> <<>>, edgeKinds |-> <<>>, err |-> "node not found"]}
    ELSE { LET out == NeighborLoop(G, id, kinds, to, TRUE)
               in  == NeighborLoop(G, id, kinds, from, FALSE)
           IN  [neighbors |-> out.neighbors \o in.neighbors,
                edgeKinds |-> out.edgeKinds \o in.edgeKinds,
                err       |-> NoErr]
           : to \in Perms(From(G.g, G.nodes[id].id)), from \in Perms(To(G.g, G.nodes[id].id)) }

(* One GetNeighbors call on a graph that was built without a panic.        *)

MaxNeighborEdges == 3

NeighborNodes == <<Node(1, "PRINCIPAL", NilLabels, NilProps), Node(2, "RESOURCE", NilLabels, NilProps),
                   Node(3, "ROLE", NilLabels, NilProps)>>

NeighborEdgeInputs ==
    {Edge(s, d, k, NilProps) : s \in NodeIDs, d \in NodeIDs, k \in EdgeKinds}

NeighborGraphs ==
    { AddEdges(AddNodes(New, SubSeq(NeighborNodes, 1, n)), E).G :
        n \in 2..3,
        E \in {es \in SeqsUpTo(NeighborEdgeInputs, MaxNeighborEdges) :
                  ~AddEdges(AddNodes(New, NeighborNodes), es).panic} }

KindFilters == {<<>>, <<"RESOURCE">>}

InitNeighbors ==
    /\ graph \in NeighborGraphs
    /\ last = Call("New", <<>>, NoErr)
    /\ panicked = FALSE
    /\ StoreIdle
    /\ EnvIdle

DoGetNeighbors ==
    /\ last.op = "New"
    /\ \E id \in NodeIDs, kinds \in KindFilters :
        \E r \in GetNeighbors(graph, id, kinds) :
            last' = [op |-> "GetNeighbors", arg |-> <<id, kinds>>, err |-> r.err,
                     neighbors |-> r.neighbors, edgeKinds |-> r.edgeKinds]
    /\ UNCHANGED <<graph, panicked, storeVars, envVars>>

NextNeighbors == DoGetNeighbors

SpecNeighbors == InitNeighbors /\ [][NextNeighbors]_vars

---------------------------------------------------------------------------
(* internal/graph: ExportSARIFAttackPath.  The document is kept as the     *)
(* value json.MarshalIndent is given; prop values are character sequences. *)

\* The kinds of the edges in the order of their first occurrence.
RECURSIVE BuildRules(_, _)
BuildRules(edges, rules) ==
    IF edges = <<>> THEN rules
    ELSE IF \E i \in 1..Len(rules) : rules[i] = Head(edges).Kind
    THEN BuildRules(Tail(edges), rules)
    ELSE BuildRules(Tail(edges), Append(rules, Head(edges).Kind))

RuleIndex(rules, kind) == (CHOOSE i \in 1..Len(rules) : rules[i] = kind) - 1

isCriticalEdge(edge) ==
    LET kv == edge.Props.kv
    IN  \/ "cross_account" \in DOMAIN kv /\ kv["cross_account"] = <<"t", "r", "u", "e">>
        \/ /\ "action" \in DOMAIN kv
           /\ \/ kv["action"] = <<"*">>
              \/ Len(kv["action"]) > 2 /\ HasSuffix(kv["action"], <<":", "*">>)

SARIFResult(rules, i, fromNode, toNode, edge) ==
    [ruleId    |-> edge.Kind,
     ruleIndex |-> RuleIndex(rules, edge.Kind),
     level     |-> IF isCriticalEdge(edge) THEN "error" ELSE "warning",
     step      |-> i,
     from      |-> fromNode.ID,
     to        |-> toNode.ID,
     action    |-> IF "action" \in DOMAIN edge.Props.kv THEN edge.Props.kv["action"] ELSE <<>>]

SARIF(rules, results) ==
    [version |-> "2.1.0",
     schema  |-> "https://json.schemastore.org/sarif-2.1.0.json",
     runs    |-> <<[tool    |-> [driver |-> [name |-> "AccessGraph", version |-> "1.1.0",
                                             rules |-> rules]],
                    results |-> results]>>]

NoDocument == [version |-> "", schema |-> "", runs |-> <<>>]

\* The document and error returned; panic when edges[i] is out of range.
ExportSARIFAttackPath(fromID, toID, nodes, edges) ==
    IF Len(nodes) = 0
    THEN [doc |-> NoDocument, err |-> "no nodes in path", panic |-> FALSE]
    ELSE IF Len(edges) < Len(nodes) - 1
    THEN [doc |-> NoDocument, err |-> "panic", panic |-> TRUE]
    ELSE LET rules == BuildRules(edges, <<>>)
         IN  [doc   |-> SARIF(rules, [i \in 1..(Len(nodes) - 1) |->
                                        SARIFResult(rules, i, nodes[i], nodes[i + 1], edges[i])]),
              err   |-> NoErr,
              panic |-> FALSE]

(* One export of a node list and an edge list.                             *)

MaxSarifNodes == 3

SarifNodeInputs ==
    { Node(1, "PRINCIPAL", NilLabels, NilProps), Node(2, "RESOURCE", NilLabels, NilProps) }

SarifEdgeInputs ==
    { Edge(1, 2, "ASSUMES_ROLE", MkProps("action" :> <<"s", ":", "*">>)),
      Edge(1, 2, "ALLOWS_ACTION", MkProps("action" :> <<":", "*">>)),
      Edge(2, 1, "ASSUMES_ROLE", MkProps("cross_account" :> <<"t", "r", "u", "e">>)),
      Edge(2, 1, "ATTACHED_POLICY", NilProps) }

InitSarif ==
    /\ graph = New
    /\ \E nodes \in SeqsUpTo(SarifNodeInputs, MaxSarifNodes),
          edges \in SeqsUpTo(SarifEdgeInputs, MaxSarifNodes - 1) :
         last = Call("FindAttackPath", <<nodes, edges>>, NoErr)
    /\ panicked = FALSE
    /\ StoreIdle
    /\ EnvIdle

DoExportSARIF ==
    /\ last.op = "FindAttackPath"
    /\ LET nodes == last.arg[1]
           edges == last.arg[2]
           r     == ExportSARIFAttackPath(IF nodes = <<>> THEN NoID ELSE nodes[1].ID,
                                          IF nodes = <<>> THEN NoID ELSE nodes[Len(nodes)].ID,
                                          nodes, edges)
       IN  /\ last' = [op |-> "ExportSARIFAttackPath", arg |-> last.arg, err |-> r.err,
                       doc |-> r.doc]
           /\ panicked' = r.panic
    /\ UNCHANGED <<graph, storeVars, envVars>>

NextSarif == DoExportSARIF

SpecSarif == InitSarif /\ [][NextSarif]_vars

---------------------------------------------------------------------------
(* Resolver.loadGraph over the store: the cache holds the graphs that      *)
(* LoadSnapshot returned.                                                  *)

\* The outcomes of loadGraph: the cache after the call, the graph and the
\* error returned.
loadGraph(c, d, id) ==
    LET r == lruGet(c, id)
    IN  IF r.ok
        THEN {[cache |-> r.cache, g |-> r.value, err |-> NoErr]}
        ELSE {[cache |-> lruAdd(r.cache, id, l.G), g |-> l.G, err |-> NoErr] :
                 l \in LoadSnapshot(d, id)}

(* Snapshots are saved and graphs are loaded through one Resolver, in any  *)
(* order.                                                                  *)

InitResolve ==
    /\ graph = New
    /\ last = Call("New", <<>>, NoErr)
    /\ panicked = FALSE
    /\ StoreIdle
    /\ EnvIdle

ResolveSaveSnapshot ==
    \E id \in StoreIDs, G \in StoreGraphs :
        \E r \in SaveSnapshot(db, clock, id, id, G) :
            /\ db' = r.db
            /\ saved' = IF r.err = NoErr THEN (id :> G) @@ saved ELSE saved
            /\ commits' = IF r.err = NoErr THEN Append(commits, id) ELSE commits
            /\ last' = Call("SaveSnapshot", id, r.err)
            /\ UNCHANGED <<graph, panicked, save, load, clock, cache, resolver, transport>>

ResolveLoadGraph ==
    \E id \in StoreIDs :
        \E r \in loadGraph(cache, db, id) :
            /\ cache' = r.cache
            /\ last' = [op |-> "loadGraph", arg |-> id, err |-> r.err, g |-> r.g,
                        afterSave |-> id \in DOMAIN saved]
            /\ UNCHANGED <<graph, panicked, storeVars, clock, commits, resolver, transport>>

NextResolve == ResolveSaveSnapshot \/ ResolveLoadGraph

SpecResolve == InitResolve /\ [][NextResolve]_vars

---------------------------------------------------------------------------
(* internal/ingest/awsjson.go.  An ARN is the sequence of its tokens, the  *)
(* colons next to an account field being tokens of their own:              *)
(* "arn:aws:iam::111111111111:role/Dev" is                                 *)
(* <<"arn:aws:iam:", ":", "111111111111", ":", "role/", "Dev">>.           *)

AccountTokens == {"111111111111", "222222222222"}

\* accountIDPattern.FindStringSubmatch: the first ":" + 12 digits + ":".
FindStringSubmatch(s) ==
    LET hits == {i \in 2..(Len(s) - 1) :
                   s[i - 1] = ":" /\ s[i] \in AccountTokens /\ s[i + 1] = ":"}
    IN  IF hits = {}
        THEN <<>>
        ELSE LET i == CHOOSE h \in hits : \A o \in hits : h <= o
             IN  <<<<":", s[i], ":">>, s[i]>>

AccountArn(accountID) == <<"arn:aws:iam:", ":", accountID, ":", "root">>

AWSRole(roleName, arn, trustDoc) ==
    [RoleName |-> roleName, Arn |-> arn, AssumeRolePolicyDocument |-> trustDoc]

\* A trust document that fails to unmarshal, or its statements; a trust
\* statement carries the strings of its Principal.AWS.
BadDocument == [ok |-> FALSE, Statement |-> <<>>]
TrustDocument(stmts) == [ok |-> TRUE, Statement |-> stmts]
TrustStatement(effect, principals) == [Effect |-> effect, AWS |-> principals]

AWSPolicy(policyName, arn, stmts) ==
    [PolicyName |-> policyName, Arn |-> arn, Statement |-> stmts]

Statement(effect, actions, resources) ==
    [Effect |-> effect, Action |-> actions, Resource |-> resources]

AWSAttachment(roleName, attached) == [RoleName |-> roleName, AttachedPolicies |-> attached]

AttachedPolicy(policyName, policyArn) == [PolicyName |-> policyName, PolicyArn |-> policyArn]

\* The edges and the account node of one trusted principal p of a role;
\* accountNodes is the set of account ARNs already given a node.
PrincipalResult(role, p, accountNodes) ==
    LET matches == FindStringSubmatch(p)
        roleAccountMatches == FindStringSubmatch(role.Arn)
        accountID == matches[2]
        accountArn == AccountArn(accountID)
        cross == Len(roleAccountMatches) > 1 /\ roleAccountMatches[2] # accountID
        assumes == Edge(p, role.Arn, "ASSUMES_ROLE", MkProps("action" :> <<"sts:AssumeRole">>))
    IN  IF Len(matches) > 1
        THEN IF cross
             THEN [Nodes |-> IF accountArn \in accountNodes
                             THEN <<>>
                             ELSE <<Node(accountArn, "ACCOUNT",
                                         MkLabels(<<accountID, "aws-account">>),
                                         MkProps("account_id" :> <<accountID>>))>>,
                   Edges |-> <<Edge(role.Arn, accountArn, "TRUSTS_CROSS_ACCOUNT",
                                    MkProps("principal" :> p)), assumes>>,
                   accountNodes |-> accountNodes \cup {accountArn}]
             ELSE [Nodes |-> <<>>, Edges |-> <<assumes>>, accountNodes |-> accountNodes]
        ELSE [Nodes |-> <<>>, Edges |-> <<>>, accountNodes |-> accountNodes]

\* The principals of an Allow statement, in order.
RECURSIVE PrincipalLoop(_, _, _, _)
PrincipalLoop(role, principals, acc, accountNodes) ==
    IF principals = <<>>
    THEN [Nodes |-> acc.Nodes, Edges |-> acc.Edges, accountNodes |-> accountNodes]
    ELSE LET r == PrincipalResult(role, Head(principals), accountNodes)
         IN  PrincipalLoop(role, Tail(principals),
                           Merge(acc, ParseResult(r.Nodes, r.Edges)), r.accountNodes)

RECURSIVE TrustLoop(_, _, _, _)
TrustLoop(role, stmts, acc, accountNodes) ==
    IF stmts = <<>>
    THEN [Nodes |-> acc.Nodes, Edges |-> acc.Edges, accountNodes |-> accountNodes]
    ELSE LET stmt == Head(stmts)
         IN  IF stmt.Effect # "Allow"
             THEN TrustLoop(role, Tail(stmts), acc, accountNodes)
             ELSE LET r == PrincipalLoop(role, stmt.AWS, acc, accountNodes)
                  IN  TrustLoop(role, Tail(stmts), ParseResult(r.Nodes, r.Edges),
                                r.accountNodes)

RECURSIVE RoleLoop(_, _, _)
RoleLoop(roles, acc, accountNodes) ==
    IF roles = <<>>
    THEN acc
    ELSE LET role == Head(roles)
             node == Node(role.Arn, "PRINCIPAL", MkLabels(<<role.RoleName, "aws-role">>),
                          MkProps("name" :> Text(role.RoleName) @@ "arn" :> role.Arn))
             withRole == Merge(acc, ParseResult(<<node>>, <<>>))
             doc == role.AssumeRolePolicyDocument
         IN  IF ~doc.ok
             THEN RoleLoop(Tail(roles), withRole, accountNodes)
             ELSE LET r == TrustLoop(role, doc.Statement, withRole, accountNodes)
                  IN  RoleLoop(Tail(roles), ParseResult(r.Nodes, r.Edges), r.accountNodes)

parseRoles(roles) == RoleLoop(roles, ParseResult(<<>>, <<>>), {})

\* fmt.Sprintf("%s#stmt%d#%s", policy.Arn, i, action); i counts from 0.
AwsPermID(policyArn, i, action) == policyArn \o <<"#stmt", ToString(i - 1), "#">> \o action

\* One Allow statement: per action a permission node and an ALLOWS_ACTION
\* edge, then per resource a resource node and an APPLIES_TO edge.
StatementResult(policy, i) ==
    LET stmt == policy.Statement[i]
        OfAction(a) ==
          LET action == stmt.Action[a]
              permID == AwsPermID(policy.Arn, i, action)
          IN  ParseResult(
                <<Node(permID, "PERMISSION", MkLabels(<<action>>),
                       MkProps("action" :> action
                               @@ "wildcard" :> <<FormatBool(Contains(action, "*"))>>))>>
                \o [k \in 1..Len(stmt.Resource) |->
                      Node(stmt.Resource[k], "RESOURCE", MkLabels(<<stmt.Resource[k]>>),
                           MkProps("arn" :> stmt.Resource[k]))],
                <<Edge(policy.Arn, permID, "ALLOWS_ACTION",
                       MkProps("statement_index" :> <<ToString(i - 1)>>))>>
                \o [k \in 1..Len(stmt.Resource) |->
                      Edge(permID, stmt.Resource[k], "APPLIES_TO",
                           MkProps("action" :> action))])
          \* ParseResult keeps nodes and edges apart, so the per-resource
          \* appends of nodes and of edges are each in the source's order.
        RECURSIVE Actions(_)
        Actions(a) == IF a > Len(stmt.Action)
                      THEN ParseResult(<<>>, <<>>)
                      ELSE Merge(OfAction(a), Actions(a + 1))
    IN  IF stmt.Effect # "Allow" THEN ParseResult(<<>>, <<>>) ELSE Actions(1)

RECURSIVE PolicyLoop(_)
PolicyLoop(policies) ==
    IF policies = <<>>
    THEN ParseResult(<<>>, <<>>)
    ELSE LET policy == Head(policies)
             node == Node(policy.Arn, "POLICY", MkLabels(<<policy.PolicyName, "aws-policy">>),
                          MkProps("name" :> Text(policy.PolicyName) @@ "arn" :> policy.Arn))
             RECURSIVE Stmts(_)
             Stmts(i) == IF i > Len(policy.Statement)
                         THEN ParseResult(<<>>, <<>>)
                         ELSE Merge(StatementResult(policy, i), Stmts(i + 1))
         IN  Merge(Merge(ParseResult(<<node>>, <<>>), Stmts(1)), PolicyLoop(Tail(policies)))

parsePolicies(policies) == PolicyLoop(policies)

\* The role ARN is built from the role name under a fixed account.
AttachmentRoleArn(roleName) ==
    <<"arn:aws:iam:", ":", "111111111111", ":", "role/">> \o Text(roleName)

RECURSIVE parseAttachments(_)
parseAttachments(attachments) ==
    IF attachments = <<>>
    THEN ParseResult(<<>>, <<>>)
    ELSE LET attachment == Head(attachments)
             roleArn == AttachmentRoleArn(attachment.RoleName)
         IN  Merge(ParseResult(<<>>,
                     [k \in 1..Len(attachment.AttachedPolicies) |->
                        Edge(roleArn, attachment.AttachedPolicies[k].PolicyArn,
                             "ATTACHED_POLICY",
                             MkProps("policy_name" :>
                                       Text(attachment.AttachedPolicies[k].PolicyName)))]),
                   parseAttachments(Tail(attachments)))

\* roles.json, policies.json and attachments.json of one directory.
ParseAWS(dir) ==
    Merge(Merge(parseRoles(dir.roles), parsePolicies(dir.policies)),
          parseAttachments(dir.attachments))

---------------------------------------------------------------------------
(* An AWS directory parsed and built into a graph by the ingest driver.    *)

MaxTrustPrincipals == 2

RoleArn(accountID, roleName) == <<"arn:aws:iam:", ":", accountID, ":", "role/", roleName>>

DevRoleArn == RoleArn("111111111111", "DevRole")

PolicyArn == <<"arn:aws:iam:", ":", "111111111111", ":", "policy/", "DevPolicy">>

ManagedPolicyArn == <<"arn:aws:iam:", ":", "aws", ":", "policy/", "ReadOnlyAccess">>

BucketArn == <<"arn:aws:s3:", ":", ":", "data-bkt">>

\* The role itself, a role and a user of its account, a role and the root
\* of another account, and the wildcard principal.
TrustPrincipals ==
    { DevRoleArn, RoleArn("111111111111", "CIRole"),
      <<"arn:aws:iam:", ":", "111111111111", ":", "user/", "alice">>,
      RoleArn("222222222222", "ExtRole"), AccountArn("222222222222"), <<"*">> }

AwsRoleFiles ==
    LET dev == { AWSRole("DevRole", DevRoleArn, TrustDocument(<<TrustStatement(eff, ps)>>)) :
                   eff \in {"Allow", "Deny"},
                   ps \in SeqsUpTo(TrustPrincipals, MaxTrustPrincipals) }
        ci == AWSRole("CIRole", RoleArn("111111111111", "CIRole"), BadDocument)
        ext == AWSRole("ExtRole", RoleArn("222222222222", "ExtRole"), BadDocument)
    IN  {<<d>> : d \in dev} \cup {<<d, ci>> : d \in dev} \cup {<<ext, d>> : d \in dev}

AwsPolicyFiles ==
    { <<>>,
      <<AWSPolicy("DevPolicy", PolicyArn,
                  <<Statement("Allow", <<<<"s3:", "GetObject">>>>, <<BucketArn>>)>>)>>,
      <<AWSPolicy("DevPolicy", PolicyArn,
                  <<Statement("Deny", <<<<"s3:", "*">>>>, <<BucketArn>>),
                    Statement("Allow", <<<<"s3:", "*">>, <<"s3:", "GetObject">>>>,
                              <<<<"*">>>>)>>)>> }

AwsAttachmentFiles ==
    { <<>>,
      <<AWSAttachment("DevRole", <<AttachedPolicy("DevPolicy", PolicyArn)>>)>>,
      <<AWSAttachment("DevRole", <<AttachedPolicy("ReadOnlyAccess", ManagedPolicyArn)>>)>>,
      <<AWSAttachment("ExtRole", <<AttachedPolicy("DevPolicy", PolicyArn)>>)>> }

InitAws ==
    /\ \E roles \in AwsRoleFiles, policies \in AwsPolicyFiles,
          attachments \in AwsAttachmentFiles :
         last = [op |-> "dir", err |-> NoErr,
                 arg |-> [roles |-> roles, policies |-> policies,
                          attachments |-> attachments]]
    /\ graph = New
    /\ panicked = FALSE
    /\ StoreIdle
    /\ EnvIdle

\* ParseAWS, then the driver's loops: every AddNode, then every AddEdge.
AwsIngest ==
    /\ ~panicked
    /\ last.op = "dir"
    /\ LET result == ParseAWS(last.arg)
           r == AddEdges(AddNodes(New, result.Nodes), result.Edges)
       IN  /\ graph' = r.G
           /\ panicked' = r.panic
           /\ last' = [op |-> "build", arg |-> last.arg, err |-> NoErr, result |-> result]
    /\ UNCHANGED <<storeVars, envVars>>

NextAws == AwsIngest

SpecAws == InitAws /\ [][NextAws]_vars

---------------------------------------------------------------------------
(* A graph that was saved is loaded again and ShortestPath is asked the    *)
(* same question of both.  The ids 1, 2 and 3 are nodes; 4 never is.       *)

MaxReloadEdges == 3

ReloadNodes == [i \in 1..3 |-> PathNode(i)]

ReloadEdgeInputs ==
    { Edge(1, 2, "ATTACHED_POLICY", NilProps),
      Edge(1, 2, "ASSUMES_ROLE", MkProps("action" :> "sts:AssumeRole")),
      Edge(2, 3, "ALLOWS_ACTION", MkProps(EmptyKV)),
      Edge(1, 3, "APPLIES_TO", NilProps) }

ReloadGraphs ==
    { AddEdges(AddNodes(New, ReloadNodes), E).G :
        E \in SeqsUpTo(ReloadEdgeInputs, MaxReloadEdges) }

InitReload ==
    /\ graph \in ReloadGraphs
    /\ \E r \in SaveSnapshot(EmptyDB, 0, RoundID, RoundID, graph) :
        /\ r.err = NoErr
        /\ db = r.db
    /\ saved = (RoundID :> graph)
    /\ save = IdleSave
    /\ load = IdleLoad
    /\ last = Call("SaveSnapshot", <<RoundID>>, NoErr)
    /\ panicked = FALSE
    /\ EnvIdle

\* LoadSnapshot, then ShortestPath on the graph in memory and on the loaded
\* one; onG and onLoaded are the results each call can return.
ReloadShortestPath ==
    \E fromID \in {1, 4}, toID \in {2, 3, 4}, maxHops \in {0, 1} :
    \E r \in LoadSnapshot(db, RoundID) :
        /\ load' = [IdleLoad EXCEPT !.pc = "done", !.id = RoundID, !.g = r.G,
                                    !.afterSave = TRUE]
        /\ last' = [op |-> "ShortestPath", arg |-> <<fromID, toID, maxHops>>, err |-> NoErr,
                    onG |-> ShortestPath(graph, fromID, toID, maxHops),
                    onLoaded |-> ShortestPath(r.G, fromID, toID, maxHops)]
        /\ UNCHANGED <<graph, panicked, db, save, saved, envVars>>

NextReload == ReloadShortestPath

SpecReload == InitReload /\ [][NextReload]_vars

---------------------------------------------------------------------------
(* Properties of the graph engine.                                         *)

Range(q) == {q[i] : i \in 1..Len(q)}

EdgesResolve(G) ==
    \A e \in Range(GetEdges(G)) : GetNode(G, e.Src).ok /\ GetNode(G, e.Dst).ok

\* C1: every edge of the edge log has both endpoints in the node map, and
\* an AddEdge whose src or dst is absent returns an error and leaves the
\* edge log and the adjacency index as they were.
C1_EdgeEndpointsPresent ==
    /\ [](EdgesResolve(graph))
    /\ [][ (/\ last'.op = "AddEdge"
            /\ \/ last'.arg[1].Src \notin DOMAIN graph.nodes
               \/ last'.arg[1].Dst \notin DOMAIN graph.nodes)
           => (/\ last'.err \notin {NoErr, "panic"}
               /\ graph'.edges = graph.edges
               /\ graph'.edgeIndex = graph.edgeIndex) ]_vars

C1_Witness ==
    /\ last.op = "AddEdge"
    /\ last.err = "destination node not found"
    /\ Len(graph.edges) >= 1

\* C2: AddNode for an id already in the graph changes nothing: the stored
\* node, the node count, the edge log and the indexes stay as they were.
C2_AddNodeFirstWriteWins ==
    [][ (last'.op = "AddNode" /\ last'.arg[1].ID \in DOMAIN graph.nodes)
        => graph' = graph ]_vars

C2_Witness ==
    /\ last.op = "AddNode"
    /\ last.arg[1].ID \in DOMAIN graph.nodes
    /\ graph.nodes[last.arg[1].ID].data.Kind # last.arg[1].Kind
    /\ graph.nodes[last.arg[1].ID].data.Labels # last.arg[1].Labels
    /\ Len(graph.edges) >= 1

---------------------------------------------------------------------------
(* Properties of the path queries, stated on the edge log alone.           *)

\* A directed walk of k edges from fromID to toID exists in the edge log.
HasPath(G, fromID, toID, k) ==
    \E p \in [1..(k + 1) -> DOMAIN G.nodes] :
        /\ p[1] = fromID
        /\ p[k + 1] = toID
        /\ \A i \in 1..k : \E e \in Range(G.edges) : e.Src = p[i] /\ e.Dst = p[i + 1]

\* The edge counts of the simple directed paths from fromID to toID.
Hops(G, fromID, toID) ==
    {k \in 0..(Cardinality(DOMAIN G.nodes) - 1) : HasPath(G, fromID, toID, k)}

EffectiveHops(h) == IF h <= 0 THEN 8 ELSE h

IsShortestPathOK == last.op = "ShortestPath" /\ last.err = NoErr

\* C3: a successful ShortestPath returns one more node than edges, starts
\* at from, ends at to, each edge is an edge of the graph joining the
\* consecutive nodes, and the edge count is at most maxHops (8 when
\* maxHops <= 0).
C3_ShortestPathShape ==
    IsShortestPathOK =>
        /\ Len(last.nodes) = Len(last.edges) + 1
        /\ last.nodes[1].ID = last.arg[1]
        /\ last.nodes[Len(last.nodes)].ID = last.arg[2]
        /\ \A i \in 1..Len(last.edges) :
              /\ last.edges[i] \in Range(graph.edges)
              /\ last.edges[i].Src = last.nodes[i].ID
              /\ last.edges[i].Dst = last.nodes[i + 1].ID
        /\ Len(last.edges) <= EffectiveHops(last.arg[3])

C3_Witness ==
    /\ IsShortestPathOK
    /\ Len(last.edges) = 2
    /\ last.arg[3] = 2

\* C4: a successful ShortestPath returns a path with the least number of
\* edges among the directed paths from from to to, also in a cyclic graph.
C4_ShortestPathMinimal ==
    IsShortestPathOK =>
        \A k \in Hops(graph, last.arg[1], last.arg[2]) : Len(last.edges) <= k

C4_Witness ==
    /\ IsShortestPathOK
    /\ Len(last.edges) = 1
    /\ 2 \in Hops(graph, last.arg[1], last.arg[2])

IsAttackPathTo ==
    /\ last.op = "FindAttackPath"
    /\ last.arg[2] # NoID
    /\ last.arg[1] \in DOMAIN graph.nodes
    /\ last.arg[2] \in DOMAIN graph.nodes

\* C5: FindAttackPath with a target, both endpoints present, never fails:
\* found=true with ShortestPath's nodes and edges when a path of at most
\* maxHops edges exists, found=false otherwise (unreachable, or too long).
\* With a target it fails only when from or to is absent.
C5_AttackPathWrapsErrors ==
    /\ IsAttackPathTo =>
          /\ last.err = NoErr
          /\ ~last.result.isNil
          /\ last.result.Found <=>
                \E k \in Hops(graph, last.arg[1], last.arg[2]) :
                    k <= EffectiveHops(last.arg[4])
          /\ last.result.Found =>
                \E r \in ShortestPath(graph, last.arg[1], last.arg[2], last.arg[4]) :
                    r.err = NoErr /\ r.nodes = last.result.Nodes
                                 /\ r.edges = last.result.Edges
          /\ ~last.result.Found => last.result.Nodes = <<>> /\ last.result.Edges = <<>>
    /\ (last.op = "FindAttackPath" /\ last.arg[2] # NoID /\ last.err # NoErr) =>
          \/ last.arg[1] \notin DOMAIN graph.nodes
          \/ last.arg[2] \notin DOMAIN graph.nodes

C5_Witness ==
    /\ IsAttackPathTo
    /\ ~last.result.Found
    /\ last.arg[4] = 1
    /\ Hops(graph, last.arg[1], last.arg[2]) = {2}

SensitiveIDs(G) ==
    {id \in DOMAIN G.nodes :
        /\ "sensitive" \in DOMAIN G.nodes[id].data.Props.kv
        /\ G.nodes[id].data.Props.kv["sensitive"] = "true"}

\* The sensitive nodes reachable from fromID within h edges.
SensitiveWithin(G, fromID, h) ==
    {t \in SensitiveIDs(G) : \E k \in Hops(G, fromID, t) : k <= h}

MinHops(G, fromID, toID) ==
    CHOOSE k \in Hops(G, fromID, toID) : \A j \in Hops(G, fromID, toID) : k <= j

IsNearestSensitive ==
    /\ last.op = "FindAttackPath"
    /\ last.arg[2] = NoID
    /\ Contains(last.arg[3], "sensitive")
    /\ last.arg[1] \in DOMAIN graph.nodes

\* C6: FindAttackPath without a target and with the "sensitive" tag returns
\* found=true with a path to the nearest sensitive node (the smallest id
\* among the nearest) when one is reachable within maxHops edges, and
\* found=false without error when none is.
C6_NearestSensitive ==
    IsNearestSensitive =>
        LET h == EffectiveHops(last.arg[4])
            R == SensitiveWithin(graph, last.arg[1], h)
        IN  /\ last.err = NoErr
            /\ ~last.result.isNil
            /\ R = {} => ~last.result.Found
            /\ R # {} =>
                  LET d == CHOOSE k \in {MinHops(graph, last.arg[1], t) : t \in R} :
                              \A t \in R : k <= MinHops(graph, last.arg[1], t)
                      t == CHOOSE x \in R :
                              /\ MinHops(graph, last.arg[1], x) = d
                              /\ \A y \in R : MinHops(graph, last.arg[1], y) = d => x <= y
                  IN  /\ last.result.Found
                      /\ Len(last.result.Edges) = d
                      /\ Len(last.result.Nodes) = d + 1
                      /\ last.result.Nodes[1].ID = last.arg[1]
                      /\ last.result.Nodes[d + 1].ID = t

---------------------------------------------------------------------------
(* Properties of the snapshot store.                                       *)

SameNodes(G, H) ==
    /\ DOMAIN G.nodes = DOMAIN H.nodes
    /\ \A id \in DOMAIN G.nodes : G.nodes[id].data = H.nodes[id].data

Count(q, x) == Cardinality({i \in 1..Len(q) : q[i] = x})

SameEdgeBag(G, H) ==
    /\ Len(G.edges) = Len(H.edges)
    /\ \A e \in Range(G.edges) \cup Range(H.edges) : Count(G.edges, e) = Count(H.edges, e)

EdgeLeq(a, b) ==
    \/ a.Src < b.Src
    \/ a.Src = b.Src /\ a.Dst < b.Dst
    \/ a.Src = b.Src /\ a.Dst = b.Dst /\ KindRank(a.Kind) <= KindRank(b.Kind)

SortedEdges(G) ==
    \A i, j \in 1..Len(G.edges) : i < j => EdgeLeq(G.edges[i], G.edges[j])

\* C7: loading a snapshot after it was saved from g gives the nodes of g
\* (id, kind, labels in order, props), the same multiset of edges, and an
\* edge log in ascending (src, dst, kind) order.
C7_SaveLoadRoundTrip ==
    (last.op = "load" /\ ~panicked) =>
        /\ SameNodes(load.g, graph)
        /\ SameEdgeBag(load.g, graph)
        /\ SortedEdges(load.g)

C7_Witness ==
    /\ last.op = "load"
    /\ ~panicked
    /\ Len(graph.edges) = 2
    /\ load.g.edges # graph.edges
    /\ \E id \in DOMAIN load.g.nodes : load.g.nodes[id].data.Props.isNil
    /\ \E id \in DOMAIN load.g.nodes : Len(load.g.nodes[id].data.Labels.s) = 2

IsEmptyGraph(G) == DOMAIN G.nodes = {} /\ Len(G.edges) = 0

Complete(G, H) == SameNodes(G, H) /\ SameEdgeBag(G, H)

LoadReturned == load.pc = "done" /\ load.err = NoErr

\* C8: whatever the interleaving with SaveSnapshot, a LoadSnapshot returns
\* the empty graph or the complete saved graph, and a LoadSnapshot that
\* started after SaveSnapshot returned success returns the complete graph.
C8_LoadAllOrNothing ==
    LoadReturned =>
        /\ \/ IsEmptyGraph(load.g)
           \/ load.id \in DOMAIN saved /\ Complete(load.g, saved[load.id])
        /\ load.afterSave =>
              load.id \in DOMAIN saved /\ Complete(load.g, saved[load.id])

C8_Witness ==
    /\ LoadReturned
    /\ ~load.afterSave
    /\ load.rows > 0
    /\ IsEmptyGraph(load.g)
    /\ load.id \in DOMAIN saved
    /\ Cardinality(DOMAIN saved[load.id].nodes) = 2

\* C9: after a SaveSnapshot that failed, the tables hold what they held
\* before the call, and every snapshot saved earlier still loads with its
\* nodes and edges.
C9_FailedSaveLeavesNothing ==
    (save.pc = "done" /\ save.err # NoErr) =>
        /\ db = save.before
        /\ \A id \in DOMAIN saved :
              \A r \in LoadSnapshot(db, id) : ~r.panic /\ Complete(r.G, saved[id])

C9_Witness ==
    /\ save.pc = "done"
    /\ save.err = "failed"
    /\ save.wrote >= 3
    /\ save.id \notin DOMAIN saved
    /\ DOMAIN saved # {}

\* C11: ListSnapshots returns every committed snapshot, ordered by
\* created_at descending, and its first entry is the snapshot whose
\* SaveSnapshot committed last.
C11_LatestIsLastCommitted ==
    last.op = "ListSnapshots" =>
        /\ {last.arg[i].ID : i \in 1..Len(last.arg)} = Range(commits)
        /\ Len(last.arg) = Len(commits)
        /\ \A i, j \in 1..Len(last.arg) :
              i < j => last.arg[i].CreatedAt >= last.arg[j].CreatedAt
        /\ commits # <<>> =>
              /\ last.latest.err = NoErr
              /\ last.latest.id = commits[Len(commits)]

WildcardShape(val) ==
    \/ val = <<"*">>
    \/ HasPrefix(val, <<"*", ":">>)
    \/ HasSuffix(val, <<":", "*">>)
    \/ HasSuffix(val, <<"/", "*">>)

EffectiveCap(cap) == IF cap <= 0 THEN RecommendDefaultCap ELSE cap

\* C12: a Recommend that succeeds suggests no wildcard-shaped action
\* (*, *:..., ...:*, .../*), returns both suggestion lists sorted ascending,
\* and each list has at most cap elements (cap <= 0 meaning 20).
C12_RecommendSafe ==
    (last.op = "Recommend" /\ last.err = NoErr) =>
        LET acts == last.rec.SuggestedActions
            res  == last.rec.SuggestedResources
        IN  /\ \A i \in 1..Len(acts) : ~WildcardShape(acts[i])
            /\ \A i, j \in 1..Len(acts) : i < j => StrLeq(acts[i], acts[j])
            /\ \A i, j \in 1..Len(res) : i < j => res[i] <= res[j]
            /\ Len(acts) <= EffectiveCap(last.arg[4])
            /\ Len(res) <= EffectiveCap(last.arg[4])

\* The scenario of TestRecommend: a wildcard policy, one principal attached
\* by an ATTACHED_POLICY edge, and one edge with an action to each bucket.
AttachedPolicyScenario ==
    /\ 2 \in DOMAIN graph.nodes
    /\ graph.nodes[2].data.Props = MkProps("action" :> <<"*">>)
    /\ Len(graph.edges) = 3
    /\ Range(graph.edges) =
          { Edge(1, 2, "ATTACHED_POLICY", MkProps(EmptyKV)),
            Edge(2, 3, "ALLOWS_ACCESS", MkProps("action" :> <<"a", ":", "g">>)),
            Edge(2, 4, "ALLOWS_ACCESS", MkProps("action" :> <<"a", ":", "p">>)) }

\* C13: Recommend(policy, "", nil, 20) on that scenario succeeds and returns
\* the two actions and the two buckets, sorted, with a non-empty JSON Patch.
C13_RecommendAttachedPolicy ==
    (last.op = "Recommend" /\ last.arg = <<2, NoID, <<>>, 20>> /\ AttachedPolicyScenario) =>
        /\ last.err = NoErr
        /\ last.rec.SuggestedActions = << <<"a", ":", "g">>, <<"a", ":", "p">> >>
        /\ last.rec.SuggestedResources = <<3, 4>>
        /\ last.rec.PatchJSON.json = "array"
        /\ Len(last.rec.PatchJSON.arr) > 0

PolicyIDs(G) == {id \in DOMAIN G.nodes : G.nodes[id].data.Kind = "POLICY"}

\* Some ALLOWS_ACTION edge of the log leads from p to a PERMISSION node that
\* is flagged wildcard or whose action holds a star.
ReachesWildcardPermission(G, p) ==
    \E e \in Range(G.edges) :
        /\ e.Src = p
        /\ e.Kind = "ALLOWS_ACTION"
        /\ G.nodes[e.Dst].data.Kind = "PERMISSION"
        /\ LET kv == G.nodes[e.Dst].data.Props.kv
           IN  \/ "wildcard" \in DOMAIN kv /\ kv["wildcard"] = "true"
               \/ "action" \in DOMAIN kv /\ \E i \in 1..Len(kv["action"]) : kv["action"][i] = "*"

C15_ClusterAdminBinding ==
    ( /\ last.op = "BuildInput"
      /\ last.arg \in {<<TestServiceAccount, TestClusterRole, TestBinding(ns)>> :
                          ns \in {"default", ""}} ) =>
        /\ <<"test-binding">> \in DOMAIN last.input.k8s.bindings
        /\ last.input.k8s.bindings[<<"test-binding">>].cluster_admin

Position(q, x) == CHOOSE i \in 1..Len(q) : q[i] = x

\* The cached id whose last use lies furthest back.
LeastRecentlyUsed(keys, uses) ==
    CHOOSE k \in keys : \A j \in keys : Position(uses, k) >= Position(uses, j)

C17_SingleFlight ==
    \A q \in DOMAIN resolver.calls : \A p \in resolver.calls[q].overlap :
        /\ LoadCount(resolver.calls[q].id) <= 1
        /\ ( /\ resolver.calls[p].pc = "done" /\ resolver.calls[p].err = NoErr
             /\ resolver.calls[q].pc = "done" /\ resolver.calls[q].err = NoErr )
              => resolver.calls[p].g = resolver.calls[q].g

---------------------------------------------------------------------------
(* Properties of the redacting logger.                                     *)

HasDigitRun(msg, n) == \E i \in 1..Len(msg) : DigitsAt(msg, i, n)

\* arn:aws:<service>:<region>:<12 digits>:<rest> somewhere in the message.
HasAccountArn(msg) == \E i \in 1..Len(msg) : ArnMatchEnd(msg, i) # 0

HasStarRun(msg, n) ==
    \E i \in 1..(Len(msg) - n + 1) : \A j \in i..(i + n - 1) : msg[j] = "*"

\* C18: whatever the message, the redacted text holds no run of 12 decimal
\* digits and no ARN with a 12-digit account field.  The ARN pass comes
\* before the account id pass: when every account id of the message is the
\* account field of an ARN, each is cut to "***" and the twelve asterisks of
\* the account id pass appear nowhere.
C18_RedactLeavesNoAccountID ==
    last.op = "Redact" =>
        /\ ~HasDigitRun(last.out, AccountIDLen)
        /\ ~HasAccountArn(last.out)
        /\ ~HasDigitRun(ArnPass(last.arg, 1), AccountIDLen)
               => ~HasStarRun(last.out, AccountIDLen)

\* A message with an ARN and a further account id behind it has been
\* redacted: both passes have had something to replace.
C18_Witness ==
    /\ last.op = "Redact"
    /\ HasAccountArn(last.arg)
    /\ HasDigitRun(ArnPass(last.arg, 1), AccountIDLen)
    /\ last.out # last.arg

---------------------------------------------------------------------------
(* Properties of the network modes.                                        *)

IsIPAddress(host) == ParseIP(host) # NilIP

IsPublicIP(host) ==
    /\ IsIPAddress(host)
    /\ ~IsLoopback(ParseIP(host))
    /\ ~IsPrivate(ParseIP(host))
    /\ ~isIMDS(host)

IsDottedDomain(host) == ~IsIPAddress(host) /\ StringsContains(host, ".")

IsServiceHostname(host) == ~IsIPAddress(host) /\ ~StringsContains(host, ".")

Rejected == last.err # NoErr /\ last.passed = 0 /\ ~last.sent

Forwarded == last.err = NoErr /\ last.passed >= 1

\* C19: in online mode (blockIMDS set, blockRFC1918 clear, wrapped around the
\* net/http transport) a request to 169.254.169.254 is rejected, and a
\* request to a public IP address or a dotted domain name is passed to the
\* wrapped transport.
C19_OnlineModeForwardsExternal ==
    (last.op = "RoundTrip" /\ transport = <<offlineTransport(TRUE, FALSE)>>) =>
        /\ isIMDS(last.arg) => Rejected
        /\ (IsPublicIP(last.arg) \/ IsDottedDomain(last.arg)) => Forwarded

\* C20: in offline mode (EnableOfflineMode(true) around the net/http
\* transport) a request is passed on only if its host is localhost, a
\* loopback or private IP address or a dot-free service hostname, and a
\* request to 169.254.169.254, to a public IPv4 or IPv6 address or to a
\* dotted domain name is rejected and never sent.
C20_OfflineModeBlocksEgress ==
    (last.op = "RoundTrip" /\ transport = <<offlineTransport(TRUE, TRUE)>>) =>
        /\ last.passed >= 1 =>
               \/ last.arg = <<"localhost">>
               \/ IsIPAddress(last.arg)
                    /\ (IsLoopback(ParseIP(last.arg)) \/ IsPrivate(ParseIP(last.arg)))
               \/ IsServiceHostname(last.arg)
        /\ (isIMDS(last.arg) \/ IsPublicIP(last.arg) \/ IsDottedDomain(last.arg)) => Rejected

---------------------------------------------------------------------------
(* Properties of MarkSensitive.                                            *)

PropsOf(G, id) == G.nodes[id].data.Props.kv

\* C21: MarkSensitive on a present node sets props["sensitive"] = "true" on
\* that node and leaves its other props, its kind and labels, every other
\* node, the edge log, the adjacency index and the database as they were; on
\* an absent id it returns an error and changes nothing; and a LoadSnapshot
\* from the store shows "sensitive" only as the saved graph had it.
C21_MarkSensitiveFrame ==
    /\ [](last.op = "LoadSnapshot" =>
            /\ DOMAIN load.g.nodes = DOMAIN saved[RoundID].nodes
            /\ \A id \in DOMAIN load.g.nodes :
                  /\ ("sensitive" \in DOMAIN PropsOf(load.g, id))
                        = ("sensitive" \in DOMAIN PropsOf(saved[RoundID], id))
                  /\ "sensitive" \in DOMAIN PropsOf(load.g, id)
                        => PropsOf(load.g, id)["sensitive"]
                              = PropsOf(saved[RoundID], id)["sensitive"])
    /\ [][ last'.op = "MarkSensitive" =>
             LET id == last'.arg[1]
             IN  /\ db' = db
                 /\ graph'.edges = graph.edges
                 /\ graph'.edgeIndex = graph.edgeIndex
                 /\ graph'.g = graph.g
                 /\ graph'.nodesByID = graph.nodesByID
                 /\ DOMAIN graph'.nodes = DOMAIN graph.nodes
                 /\ \A n \in DOMAIN graph.nodes \ {id} : graph'.nodes[n] = graph.nodes[n]
                 /\ IF id \in DOMAIN graph.nodes
                    THEN /\ last'.err = NoErr
                         /\ graph'.nodes[id].id = graph.nodes[id].id
                         /\ graph'.nodes[id].data.ID = graph.nodes[id].data.ID
                         /\ graph'.nodes[id].data.Kind = graph.nodes[id].data.Kind
                         /\ graph'.nodes[id].data.Labels = graph.nodes[id].data.Labels
                         /\ DOMAIN PropsOf(graph', id) = DOMAIN PropsOf(graph, id) \cup {"sensitive"}
                         /\ PropsOf(graph', id)["sensitive"] = "true"
                         /\ \A k \in DOMAIN PropsOf(graph, id) \ {"sensitive"} :
                               PropsOf(graph', id)[k] = PropsOf(graph, id)[k]
                    ELSE /\ last'.err # NoErr
                         /\ graph' = graph ]_vars

\* A node with another prop was marked in memory, and the graph loaded from
\* the store afterwards does not carry the mark.
C21_Witness ==
    /\ last.op = "LoadSnapshot"
    /\ 1 \in DOMAIN graph.nodes
    /\ DOMAIN PropsOf(graph, 1) = {"name", "sensitive"}
    /\ PropsOf(graph, 1)["sensitive"] = "true"
    /\ graph.edges # <<>>
    /\ "sensitive" \notin DOMAIN PropsOf(load.g, 1)

---------------------------------------------------------------------------
(* Properties of GetNeighbors.                                             *)

\* How often the pair (neighbor n, edge kind k) is among the entries returned.
Returned(n, k) ==
    Cardinality({i \in 1..Len(last.neighbors) :
                    last.neighbors[i].ID = n /\ last.edgeKinds[i] = k})

\* How many edges of kind k join id and n, in either direction.
Incident(id, n, k) ==
    Cardinality({i \in 1..Len(graph.edges) :
                    /\ graph.edges[i].Kind = k
                    /\ \/ graph.edges[i].Src = id /\ graph.edges[i].Dst = n
                       \/ graph.edges[i].Src = n /\ graph.edges[i].Dst = id})

\* C22: GetNeighbors(id, nil) returns two sequences of equal length holding
\* one (neighbor, edge kind) entry for each edge incident to id.
C22_NeighborPerEdge ==
    (last.op = "GetNeighbors" /\ last.err = NoErr /\ last.arg[2] = <<>>) =>
        /\ Len(last.neighbors) = Len(last.edgeKinds)
        /\ \A n \in NodeIDs, k \in EdgeKinds :
              Returned(n, k) = Incident(last.arg[1], n, k)

---------------------------------------------------------------------------
(* Properties of edge identity.                                            *)

\* C23: the edge log holds at most one edge per (src, dst, kind), and so
\* does the edges table for each snapshot.
C23_OneEdgePerKey ==
    /\ \A i, j \in 1..Len(graph.edges) :
          (/\ graph.edges[i].Src = graph.edges[j].Src
           /\ graph.edges[i].Dst = graph.edges[j].Dst
           /\ graph.edges[i].Kind = graph.edges[j].Kind) => i = j
    /\ \A i, j \in 1..Len(db.edges) :
          (/\ db.edges[i].snapshot_id = db.edges[j].snapshot_id
           /\ db.edges[i].src = db.edges[j].src
           /\ db.edges[i].dst = db.edges[j].dst
           /\ db.edges[i].kind = db.edges[j].kind) => i = j

---------------------------------------------------------------------------
(* Properties of the exporters.                                            *)

\* C24: with an empty node list and an empty edge list ExportSARIFAttackPath
\* returns no error and a SARIF 2.1.0 document with one run, the tool driver
\* and no results.
C24_SarifEmptyInput ==
    (last.op = "ExportSARIFAttackPath" /\ last.arg = <<<<>>, <<>>>>) =>
        /\ last.err = NoErr
        /\ last.doc.version = "2.1.0"
        /\ Len(last.doc.runs) = 1
        /\ last.doc.runs[1].tool.driver.name = "AccessGraph"
        /\ last.doc.runs[1].results = <<>>

---------------------------------------------------------------------------
(* Properties of the recommender on empty input.                           *)

\* C25: on the empty graph Recommend returns no error and the no-wildcard
\* recommendation: no suggested actions or resources, the patch "[]" and
\* the rationale that the policy does not contain wildcard permissions.
C25_RecommendEmptyGraph ==
    (last.op = "Recommend" /\ graph = New) =>
        /\ last.err = NoErr
        /\ last.rec.SuggestedActions = <<>>
        /\ last.rec.SuggestedResources = <<>>
        /\ last.rec.PatchJSON = [json |-> "array", arr |-> <<>>]
        /\ last.rec.Rationale = <<"Policy does not contain wildcard permissions">>

---------------------------------------------------------------------------
(* Properties of loading an unknown snapshot.                              *)

\* C26: a LoadSnapshot of an id with no row in the snapshots table returns
\* an error, not a graph.
C26_LoadUnknownSnapshotFails ==
    (load.pc = "done" /\ load.id \notin DOMAIN db.snapshots) => load.err # NoErr

---------------------------------------------------------------------------
(* Properties of the resolver over the store.                              *)

\* C27: a loadGraph(id) that starts after SaveSnapshot(id, label, g) returned
\* success returns, without error, a graph with the nodes and edges of g,
\* whatever loadGraph calls came before the save.
C27_LoadGraphSeesSave ==
    (last.op = "loadGraph" /\ last.afterSave) =>
        /\ last.err = NoErr
        /\ Complete(last.g, saved[last.arg])

\* The ids of the nodes a batch emits.
EmittedIDs(result) == {result.Nodes[i].ID : i \in 1..Len(result.Nodes)}

\* C28: every edge of a parsed batch starts and ends at a node of the same
\* batch, and the driver's build (all AddNode, then all AddEdge) keeps every
\* edge of the batch.
C28_BatchEdgesResolve ==
    (last.op = "build" /\ ~panicked) =>
        /\ \A e \in Range(last.result.Edges) :
             e.Src \in EmittedIDs(last.result) /\ e.Dst \in EmittedIDs(last.result)
        /\ Len(GetEdges(graph)) = Len(last.result.Edges)

\* C29: AddEdge of an edge from a present node to itself returns without
\* panicking; checked for the edges the AWS parsers emit, on the graph
\* holding every node of the batch.
C29_SelfLoopNeverPanics ==
    last.op = "build" =>
        LET G == AddNodes(New, last.result.Nodes)
        IN  \A e \in Range(last.result.Edges) :
              (e.Src = e.Dst /\ GetNode(G, e.Src).ok) => AddEdge(G, e).err # "panic"

\* C30: ShortestPath on the loaded copy of a saved graph fails exactly when
\* it fails on the graph, returns as many edges, and reports for each pair
\* it traverses the first edge that was inserted between the pair in the
\* graph that was saved.
C30_ShortestPathAfterReload ==
    last.op = "ShortestPath" =>
        \A rl \in last.onLoaded, rg \in last.onG :
            /\ rl.err = rg.err
            /\ Len(rl.edges) = Len(rg.edges)
            /\ \A k \in 1..Len(rl.edges) :
                 rl.edges[k] = lookupEdge(graph, rl.edges[k].Src, rl.edges[k].Dst).edge

===========================================================================
